---- MODULE Spec2Model ----
(***************************************************************************)
(* Motion model of the glucose blob (src/src/js/components/blob.js).       *)
(*                                                                         *)
(* Numbers.  The JavaScript code works on doubles.  The model keeps every  *)
(* length, coordinate and interpolation factor as an integer number of     *)
(* 1/10000 (One = 1.0), times as integer milliseconds and pointer          *)
(* coordinates as integer pixels.  Products are divided back by One with   *)
(* truncation toward zero; Math.sqrt is rounded up to the next 1/10000, so *)
(* that "dist > r" in the model is exactly "dx*dx + dy*dy > r*r".          *)
(***************************************************************************)
EXTENDS Integers, Sequences, FiniteSets, TLC

One == 10^4

\* ------------------------------------------------------------------ bounds
MaxFrames == 56        \* animation frames after construction
EventPeriod == 26      \* pointer/API events arrive every EventPeriod-th frame
MaxEvents == 5         \* pointer/API events that change the blob
MaxTimers == 1         \* pending wasDragged timeouts
BurstFrames == 64      \* frames of one uninterrupted run of the animation loop
MaxLongFrames == 1728  \* animation frames of the long runs
MaxLongEvents == 3     \* pointer/API events of the long runs
MaxFairEvents == 3     \* pointer/API events of the runs checked for progress
MaxShapeFrames == 60   \* frames of the runs that generate the outline
MaxGlucoseInput == 16  \* largest glucose value passed to setGlucose, mmol/L
MaxGraphGlucose == 16  \* largest glucose value of the debug slider, mmol/L

\* ------------------------------------------------------- program constants
centerX == 5000                 \* 0.5
centerY == 5000                 \* 0.5
maxRadius == 4800               \* 0.48, drag clamp
absoluteMaxRadius == 4800       \* 0.48, tick clamp
normalRadius == 3500            \* 0.35
returnThreshold == 2000         \* 0.2
oscillationRadius == 1800       \* 0.18, "maxRadius" of updatePosition
edgeReturnDuration == 600       \* ms
centerLockEaseDuration == 800   \* ms
frameStep == 16                 \* ms added by animate()
moveThreshold == 5              \* px
containerSize == 252            \* px, width and height of the container
initialTrend == 45
Undefined == -1                 \* the value of a field that was never set

TrendAngles == {0, 45, 90, 135, 180}
TREND_ANGLES == <<0, 45, 90, 135, 180>>

\* time seed Math.random() * 1000 of the constructor
TimeSeeds == {0}

\* pointer positions (clientX, clientY) delivered by the input layer
Pt(x, y) == [clientX |-> x, clientY |-> y]
StartPointers == {Pt(126, 126)}
MovePointers == {Pt(129, 126), Pt(126, 196), Pt(235, 126), Pt(426, -174)}

\* angles passed to setTrendDirection
TrendInputs == {0, 90}

\* -------------------------------------------------------------- arithmetic
Abs(a) == IF a < 0 THEN -a ELSE a
Min(a, b) == IF a < b THEN a ELSE b

\* a / b truncated toward zero, b > 0
Div(a, b) == IF a >= 0 THEN a \div b ELSE -((-a) \div b)

\* a * b for two fixed-point numbers
Mul(a, b) == Div(a * b, One)

RECURSIVE SqrtSearch(_, _, _)
SqrtSearch(n, lo, hi) ==
  IF lo >= hi THEN lo
  ELSE LET mid == (lo + hi) \div 2
       IN IF mid * mid >= n THEN SqrtSearch(n, lo, mid)
          ELSE SqrtSearch(n, mid + 1, hi)

\* Math.sqrt of a sum of squares of fixed-point numbers, rounded up
Sqrt(n) == SqrtSearch(n, 0, 46340)

Dist(dx, dy) == Sqrt(dx * dx + dy * dy)

\* Math.sin(x) for x in 1/100000 rad, 0 <= x < 2*pi, result fixed-point
Pi5 == 314159
SinQuarter(y5) ==
  LET y == y5 \div 10
      y2 == Mul(y, y)
      t3 == Mul(y, y2)
      t5 == Mul(t3, y2)
      t7 == Div(t5 * (y2 \div 10), One \div 10)
  IN y - (t3 \div 6) + (t5 \div 120) - (t7 \div 5040)
SinHalf(x5) == IF 2 * x5 <= Pi5 THEN SinQuarter(x5) ELSE SinQuarter(Pi5 - x5)
Sin(x5) ==
  LET r == x5 % (2 * Pi5)
  IN IF r <= Pi5 THEN SinHalf(r) ELSE -SinHalf(r - Pi5)

\* Math.cos / Math.sin of (trendAngle - 90) degrees
DirX(angle) ==
  CASE angle = 0 -> 0
    [] angle = 45 -> 7071
    [] angle = 90 -> One
    [] angle = 135 -> 7071
    [] angle = 180 -> 0
DirY(angle) ==
  CASE angle = 0 -> -One
    [] angle = 45 -> -7071
    [] angle = 90 -> 0
    [] angle = 135 -> 7071
    [] angle = 180 -> One

\* 1 - Math.pow(1 - t, 3)
EaseOutCubic(t) ==
  LET u == One - t
  IN One - Mul(Mul(u, u), u)

\* faulty variant: Math.min forgotten
Progress_NoMin(elapsed, duration) == Div(elapsed * One, duration)

\* Math.min(1, elapsed / duration)
Progress(elapsed, duration) == Min(One, Div(elapsed * One, duration))

\* ------------------------------------------------------------ SimplexNoise
\* The constructor shuffles the permutation table at random; along the line
\* y = 0 the table only decides the sign of the gradient at each integer x:
\* grad(hash, x, 0) is x for hash & 3 = 0 and -x otherwise.
NoiseTables == {[i \in 0..3 |-> IF i % 2 = 0 THEN 1 ELSE -1],
                [i \in 0..3 |-> IF i % 2 = 0 THEN -1 ELSE 1]}

Fade(t) ==
  LET t3 == Mul(Mul(t, t), t)
      inner == Div(t * (6 * t - 15 * One), One) + 10 * One
  IN Mul(t3, inner)

\* noise2D(x, 0) with x = time * movementSpeed * 0.5 = time * 0.000075
Noise(signs, time) ==
  LET x6 == time * 75
      xi == x6 \div 1000000
      xf == (x6 % 1000000) \div 100
      u == Fade(xf)
      ga == signs[xi] * xf
      gb == signs[xi + 1] * (xf - One)
  IN ga + Mul(u, gb - ga)

\* ------------------------------------------------------------------ colors
\* A color is the text of its hex notation, one character per element.
\* n tenths as a fixed-point number
Tenths(n) == n * (One \div 10)

Max(a, b) == IF a > b THEN a ELSE b

\* Math.round of a fixed-point number: the nearest integer, halves upward
Round(n) == (n + One \div 2) \div One

\* Glucose thresholds (mmol/L)
GLUCOSE_RANGES ==
  [DANGER_LOW |-> Tenths(40), WARNING_LOW |-> Tenths(45),
   WARNING_HIGH |-> Tenths(90), DANGER_HIGH |-> Tenths(100),
   MIN_VALUE |-> Tenths(20), MAX_VALUE |-> Tenths(150)]

COLORS ==
  [SAFE |-> <<"#", "7", "E", "D", "3", "2", "1">>,
   WARNING |-> <<"#", "F", "F", "D", "7", "0", "0">>,
   DANGER |-> <<"#", "F", "F", "4", "4", "4", "4">>]

LowerHex == <<"0", "1", "2", "3", "4", "5", "6", "7",
              "8", "9", "a", "b", "c", "d", "e", "f">>
UpperHex == <<"0", "1", "2", "3", "4", "5", "6", "7",
              "8", "9", "A", "B", "C", "D", "E", "F">>

\* parseInt(color.slice(i, i + 2), 16), i counted from 0
ParseHex(color, i) ==
  LET digit(ch) == CHOOSE d \in 0..15 : LowerHex[d + 1] = ch \/ UpperHex[d + 1] = ch
  IN 16 * digit(color[i + 1]) + digit(color[i + 2])

\* v.toString(16).padStart(2, '0') for a channel value
ToHex(v) == <<LowerHex[(v \div 16) + 1], LowerHex[(v % 16) + 1]>>

\* the three channels of a color
Rgb(color) == <<ParseHex(color, 1), ParseHex(color, 3), ParseHex(color, 5)>>

blendColors(color1, color2, t) ==
  LET r1 == ParseHex(color1, 1)
      g1 == ParseHex(color1, 3)
      b1 == ParseHex(color1, 5)
      r2 == ParseHex(color2, 1)
      g2 == ParseHex(color2, 3)
      b2 == ParseHex(color2, 5)
      r == Round(r1 * One + (r2 - r1) * t)
      g == Round(g1 * One + (g2 - g1) * t)
      b == Round(b1 * One + (b2 - b1) * t)
  IN <<"#">> \o ToHex(r) \o ToHex(g) \o ToHex(b)

\* GlucoseBlob.getColorForGlucose
getColorForGlucose(glucose) ==
  LET R == GLUCOSE_RANGES
      margin == Tenths(3)
      width == Tenths(5)
  IN IF glucose < R.DANGER_LOW - margin \/ glucose > R.DANGER_HIGH + margin
     THEN COLORS.DANGER
     ELSE IF glucose > R.WARNING_LOW + margin /\ glucose < R.WARNING_HIGH - margin
     THEN COLORS.SAFE
     ELSE IF glucose >= R.WARNING_HIGH - margin /\ glucose <= R.DANGER_HIGH + margin
     THEN IF glucose > R.DANGER_HIGH
          THEN blendColors(COLORS.WARNING, COLORS.DANGER,
                           Min(One, Div((glucose - R.DANGER_HIGH) * One, width)))
          ELSE IF glucose < R.WARNING_HIGH
          THEN blendColors(COLORS.WARNING, COLORS.SAFE,
                           Min(One, Div((R.WARNING_HIGH - glucose) * One, width)))
          ELSE COLORS.WARNING
     ELSE IF glucose >= R.DANGER_LOW - margin /\ glucose <= R.WARNING_LOW + margin
     THEN IF glucose < R.DANGER_LOW
          THEN blendColors(COLORS.WARNING, COLORS.DANGER,
                           Min(One, Div((R.DANGER_LOW - glucose) * One, width)))
          ELSE IF glucose > R.WARNING_LOW
          THEN blendColors(COLORS.WARNING, COLORS.SAFE,
                           Min(One, Div((glucose - R.WARNING_LOW) * One, width)))
          ELSE COLORS.WARNING
     ELSE COLORS.SAFE

\* faulty variant: the value is not clamped to MIN_VALUE..MAX_VALUE
getScaleForGlucose_NoClamp(glucose) ==
  LET R == GLUCOSE_RANGES
      normalized == Div((glucose - R.MIN_VALUE) * One, R.MAX_VALUE - R.MIN_VALUE)
  IN Tenths(3) + Mul(normalized, Tenths(18) - Tenths(3))

getScaleForGlucose(glucose) ==
  LET R == GLUCOSE_RANGES
      minScale == Tenths(3)
      maxScale == Tenths(18)
      clampedGlucose == Max(R.MIN_VALUE, Min(R.MAX_VALUE, glucose))
      normalized == Div((clampedGlucose - R.MIN_VALUE) * One,
                        R.MAX_VALUE - R.MIN_VALUE)
  IN minScale + Mul(normalized, maxScale - minScale)

\* -------------------------------------------------------------- blob shape
\* a * b for a fixed-point factor a and a fixed-point length b up to 100
MulWide(a, b) == Div(a * (b \div 10), One \div 10)

\* Math.cos(x) for x in 1/100000 rad
Cos(x5) == Sin(x5 + Pi5 \div 2)

\* v.toFixed(1) of a fixed-point number v >= 0, in tenths
ToFixed(v) == (v + One \div 20) \div (One \div 10)

\* The values noise2D returns for the 16 lookups of one generateBlobPath
\* call: the permutation table is shuffled at random, so a call sees some
\* values between -1 and 1.
PathNoises ==
  {[angle |-> <<0, 0, 0, 0>>, radius |-> <<0, 0, 0, 0>>,
    handle1 |-> <<0, 0, 0, 0>>, handle2 |-> <<0, 0, 0, 0>>],
   [angle |-> <<One, -One, One, -One>>, radius |-> <<-One, One, One, -One>>,
    handle1 |-> <<One, One, -One, -One>>, handle2 |-> <<-One, One, -One, One>>],
   [angle |-> <<-One, 3000, 0, 7000>>, radius |-> <<5000, -2500, One, 0>>,
    handle1 |-> <<-4000, 0, 6000, One>>, handle2 |-> <<One, -One, 2000, -8000>>]}

MoveTo(x, y) == [cmd |-> "M", args |-> <<ToFixed(x), ToFixed(y)>>]
CurveTo(c1x, c1y, c2x, c2y, x, y) ==
  [cmd |-> "C",
   args |-> <<ToFixed(c1x), ToFixed(c1y), ToFixed(c2x), ToFixed(c2y),
              ToFixed(x), ToFixed(y)>>]
ClosePath == [cmd |-> "Z", args |-> <<>>]

\* one cubic segment of createOrganicBlobPath, from current to next
Segment(current, next, handleNoise1, handleNoise2, morphIntensity) ==
  LET handleLen1 == 20 * One + Mul(handleNoise1, morphIntensity) * 8
      handleLen2 == 20 * One + Mul(handleNoise2, morphIntensity) * 8
      angle1 == current.angle + Pi5 \div 2
      angle2 == next.angle - Pi5 \div 2
  IN CurveTo(current.x + MulWide(Cos(angle1), handleLen1),
             current.y + MulWide(Sin(angle1), handleLen1),
             next.x + MulWide(Cos(angle2), handleLen2),
             next.y + MulWide(Sin(angle2), handleLen2),
             next.x, next.y)

\* faulty variant: the last segment does not wrap around to the first point
createOrganicBlobPath_Open(points, time, morphIntensity, field) ==
  LET n == Len(points)
  IN <<MoveTo(points[1].x, points[1].y)>>
     \o [i \in 1..n |-> Segment(points[i], points[Min(i + 1, n)],
                                field.handle1[i], field.handle2[i],
                                morphIntensity)]
     \o <<ClosePath>>

\* points are numbered from 1: points[(i + 1) % n] of the code is
\* points[(i % n) + 1] here
createOrganicBlobPath(points, time, morphIntensity, field) ==
  LET n == Len(points)
  IN <<MoveTo(points[1].x, points[1].y)>>
     \o [i \in 1..n |-> Segment(points[i], points[(i % n) + 1],
                                field.handle1[i], field.handle2[i],
                                morphIntensity)]
     \o <<ClosePath>>

\* morphIntensity of generateBlobPath
MorphIntensity(b, time) ==
  IF b.centerLock THEN Tenths(1)
  ELSE IF b.centerLockEaseOut
  THEN Tenths(1) + Mul(Progress(time - b.centerLockEaseStart,
                                centerLockEaseDuration), Tenths(9))
  ELSE One

generateBlobPath(b, time, field) ==
  LET cx == 50 * One
      cy == 50 * One
      baseRadius == 32 * One
      morphIntensity == MorphIntensity(b, time)
      numPoints == 4
      point(i) ==
        LET baseAngle == (i * 2 * Pi5) \div numPoints - Pi5 \div 2
            angleNoise == Mul(Mul(field.angle[i + 1], Tenths(4)), morphIntensity)
            radiusNoise == Mul(field.radius[i + 1], morphIntensity)
            angle == baseAngle + angleNoise * 10
            radius == baseRadius + radiusNoise * 12
        IN [x |-> cx + MulWide(Cos(angle), radius),
            y |-> cy + MulWide(Sin(angle), radius),
            angle |-> angle]
  IN createOrganicBlobPath([i \in 1..numPoints |-> point(i - 1)], time,
                           morphIntensity, field)

\* -------------------------------------------------------------- GraphSlider
\* Graph coordinates are in 1/100 of an SVG unit.
Px == 10 * 10

minX == 0
maxX == 206 * Px
upperBoundaryY == 96 * Px
lowerBoundaryY == 156 * Px

DANGER_HIGH_Y == 96 * Px
BLEND_HIGH_Y == 101 * Px
WARNING_HIGH_Y == 106 * Px
WARNING_LOW_Y == 151 * Px
DANGER_LOW_Y == 156 * Px

\* a / b truncated toward zero, b # 0
Quot(a, b) == IF b < 0 THEN Div(-a, -b) ELSE Div(a, b)

\* 6 / 60 glucose per SVG unit
glucosePerPixel == Div(6 * One, 60)

yToGlucose(y) == 10 * One - Div((y - upperBoundaryY) * glucosePerPixel, Px)

\* faulty variant: the lower boundary taken for the upper one
glucoseToY_Lower(glucose) ==
  lowerBoundaryY + Div((10 * One - glucose) * Px, glucosePerPixel)

glucoseToY(glucose) ==
  upperBoundaryY + Div((10 * One - glucose) * Px, glucosePerPixel)

\* faulty variant: the blend of the high warning zone runs over 10 units
getColorForY_WideBlend(y) ==
  IF y <= DANGER_HIGH_Y \/ y >= DANGER_LOW_Y THEN COLORS.DANGER
  ELSE IF y >= WARNING_HIGH_Y /\ y <= WARNING_LOW_Y THEN COLORS.SAFE
  ELSE IF y > DANGER_HIGH_Y /\ y < WARNING_HIGH_Y
  THEN blendColors(COLORS.WARNING, COLORS.DANGER,
                   Div((WARNING_HIGH_Y - y) * One, 10 * Px))
  ELSE blendColors(COLORS.WARNING, COLORS.DANGER,
                   Div((y - WARNING_LOW_Y) * One, 5 * Px))

\* GraphSlider.getColorForY; its COLORS and blendColors are copies of the
\* blob's
getColorForY(y) ==
  IF y <= DANGER_HIGH_Y \/ y >= DANGER_LOW_Y THEN COLORS.DANGER
  ELSE IF y >= WARNING_HIGH_Y /\ y <= WARNING_LOW_Y THEN COLORS.SAFE
  ELSE IF y > DANGER_HIGH_Y /\ y < WARNING_HIGH_Y
  THEN IF y <= BLEND_HIGH_Y
       THEN blendColors(COLORS.WARNING, COLORS.DANGER,
                        Div((BLEND_HIGH_Y - y) * One, 5 * Px))
       ELSE COLORS.WARNING
  ELSE IF y > WARNING_LOW_Y /\ y < DANGER_LOW_Y
  THEN blendColors(COLORS.WARNING, COLORS.DANGER,
                   Div((y - WARNING_LOW_Y) * One, 5 * Px))
  ELSE COLORS.SAFE

\* GraphSlider.getColorForGlucose
GraphSlider_getColorForGlucose(glucose) ==
  IF glucose <= Tenths(40) \/ glucose >= Tenths(100) THEN COLORS.DANGER
  ELSE IF glucose >= Tenths(45) /\ glucose <= Tenths(90) THEN COLORS.SAFE
  ELSE IF glucose > Tenths(90) /\ glucose < Tenths(100)
  THEN IF glucose >= Tenths(95)
       THEN blendColors(COLORS.WARNING, COLORS.DANGER,
                        Div((glucose - Tenths(95)) * One, Tenths(5)))
       ELSE COLORS.WARNING
  ELSE IF glucose > Tenths(40) /\ glucose < Tenths(45)
  THEN blendColors(COLORS.WARNING, COLORS.DANGER,
                   Div((Tenths(45) - glucose) * One, Tenths(5)))
  ELSE COLORS.SAFE

getZoneNameForY(y) ==
  IF y < DANGER_HIGH_Y THEN "danger-high"
  ELSE IF y <= WARNING_HIGH_Y THEN "warning-high"
  ELSE IF y < WARNING_LOW_Y THEN "safe"
  ELSE IF y <= DANGER_LOW_Y THEN "warning-low"
  ELSE "danger-low"

\* clipY and clipHeight chosen by updateColors and updateClipPath
ClipBand(y) ==
  IF y < DANGER_HIGH_Y THEN [clipY |-> 0, clipHeight |-> DANGER_HIGH_Y]
  ELSE IF y < WARNING_HIGH_Y
  THEN [clipY |-> DANGER_HIGH_Y, clipHeight |-> WARNING_HIGH_Y - DANGER_HIGH_Y]
  ELSE IF y < WARNING_LOW_Y
  THEN [clipY |-> WARNING_HIGH_Y, clipHeight |-> WARNING_LOW_Y - WARNING_HIGH_Y]
  ELSE IF y < DANGER_LOW_Y
  THEN [clipY |-> WARNING_LOW_Y, clipHeight |-> DANGER_LOW_Y - WARNING_LOW_Y]
  ELSE [clipY |-> DANGER_LOW_Y, clipHeight |-> 252 * Px - DANGER_LOW_Y]

\* the index of the first pair of consecutive samples that brackets x, or 0
Bracket(pathSamples, x) ==
  LET hits == {i \in 1..(Len(pathSamples) - 1) :
                 pathSamples[i].x <= x /\ pathSamples[i + 1].x >= x}
  IN IF hits = {} THEN 0 ELSE CHOOSE i \in hits : \A j \in hits : i <= j

getYForX(pathSamples, x) ==
  LET i == Bracket(pathSamples, x)
      lower == IF i = 0 THEN pathSamples[1] ELSE pathSamples[i]
      upper == IF i = 0 THEN pathSamples[Len(pathSamples)] ELSE pathSamples[i + 1]
  IN IF upper.x = lower.x THEN lower.y
     ELSE LET t == Quot((x - lower.x) * One, upper.x - lower.x)
          IN lower.y + Mul(t, upper.y - lower.y)

\* Array.prototype.sort((a, b) => a.x - b.x): a stable sort
InsertByX(s, e) ==
  LET k == Cardinality({i \in 1..Len(s) : s[i].x <= e.x})
  IN SubSeq(s, 1, k) \o <<e>> \o SubSeq(s, k + 1, Len(s))

RECURSIVE SortByX(_)
SortByX(s) ==
  IF s = <<>> THEN <<>>
  ELSE InsertByX(SortByX(SubSeq(s, 1, Len(s) - 1)), s[Len(s)])

Boundaries ==
  <<[y |-> DANGER_HIGH_Y, name |-> "danger-high"],
    [y |-> WARNING_HIGH_Y, name |-> "warning-high"],
    [y |-> WARNING_LOW_Y, name |-> "warning-low"],
    [y |-> DANGER_LOW_Y, name |-> "danger-low"]>>

\* faulty variant: a sample on the boundary counts on both sides
CrossingsAt_BothInclusive(pathSamples, i) ==
  LET prev == pathSamples[i - 1]
      curr == pathSamples[i]
      cross(boundary) ==
        IF /\ prev.y # curr.y
           /\ \/ (prev.y <= boundary.y /\ curr.y >= boundary.y)
              \/ (prev.y >= boundary.y /\ curr.y <= boundary.y)
        THEN LET t == Quot((boundary.y - prev.y) * One, curr.y - prev.y)
             IN <<[x |-> prev.x + Mul(t, curr.x - prev.x),
                   y |-> boundary.y, boundary |-> boundary.name]>>
        ELSE <<>>
  IN cross(Boundaries[1]) \o cross(Boundaries[2])
     \o cross(Boundaries[3]) \o cross(Boundaries[4])

\* the crossings pushed for the samples i - 1 and i
CrossingsAt(pathSamples, i) ==
  LET prev == pathSamples[i - 1]
      curr == pathSamples[i]
      cross(boundary) ==
        IF \/ (prev.y < boundary.y /\ curr.y >= boundary.y)
           \/ (prev.y >= boundary.y /\ curr.y < boundary.y)
        THEN LET t == Quot((boundary.y - prev.y) * One, curr.y - prev.y)
             IN <<[x |-> prev.x + Mul(t, curr.x - prev.x),
                   y |-> boundary.y, boundary |-> boundary.name]>>
        ELSE <<>>
  IN cross(Boundaries[1]) \o cross(Boundaries[2])
     \o cross(Boundaries[3]) \o cross(Boundaries[4])

RECURSIVE AllCrossings(_, _)
AllCrossings(pathSamples, i) ==
  IF i > Len(pathSamples) THEN <<>>
  ELSE CrossingsAt(pathSamples, i) \o AllCrossings(pathSamples, i + 1)

\* faulty variant: every segment but the first starts one unit late
buildSegments_Gap(pathSamples, boundaryCrossings) ==
  LET n == Len(boundaryCrossings)
      startX(k) == IF k = 1 THEN minX ELSE boundaryCrossings[k - 1].x + Px
      endX(k) == IF k <= n THEN boundaryCrossings[k].x ELSE maxX
  IN [k \in 1..(n + 1) |->
        [startX |-> startX(k), endX |-> endX(k),
         zone |-> getZoneNameForY(
                    getYForX(pathSamples, Div(startX(k) + endX(k), 2)))]]

\* one segment per crossing, from lastX to the crossing, and a final one
buildSegments(pathSamples, boundaryCrossings) ==
  LET n == Len(boundaryCrossings)
      startX(k) == IF k = 1 THEN minX ELSE boundaryCrossings[k - 1].x
      endX(k) == IF k <= n THEN boundaryCrossings[k].x ELSE maxX
  IN [k \in 1..(n + 1) |->
        [startX |-> startX(k), endX |-> endX(k),
         zone |-> getZoneNameForY(
                    getYForX(pathSamples, Div(startX(k) + endX(k), 2)))]]

\* the sorted crossings of findBoundaryCrossings
findBoundaryCrossings(pathSamples) == SortByX(AllCrossings(pathSamples, 2))

getSegmentForX(segments, x) ==
  LET hits == {k \in 1..Len(segments) :
                 x >= segments[k].startX /\ x <= segments[k].endX}
  IN IF hits = {} THEN segments[Len(segments)]
     ELSE segments[CHOOSE k \in hits : \A j \in hits : k <= j]

\* -------------------------------------------------------------- GlucoseBlob
VARIABLES
  blob,     \* the fields of the GlucoseBlob instance
  timers,   \* number of pending setTimeout callbacks clearing wasDragged
  frames,   \* animate() calls since construction
  events,   \* pointer/API events that changed the blob
  last,     \* history: the last operation and the locals of its updatePosition
  look,     \* glucose value, colors, scale and outline of the GlucoseBlob
  slider,   \* the fields of the GraphSlider instance
  app       \* the module variables of app.js

vars == <<blob, timers, frames, events, last, look, slider, app>>

\* faulty variant: the centerLock guard forgotten
handleDragStart_NoLockGuard(b, e) ==
  [b EXCEPT !.isDragging = TRUE,
            !.hasMoved = FALSE,
            !.dragStartX = e.clientX,
            !.dragStartY = e.clientY,
            !.dragStartPosX = b.posX,
            !.dragStartPosY = b.posY]

\* handleDragStart(e)
handleDragStart(b, e) ==
  IF b.centerLock THEN b
  ELSE [b EXCEPT !.isDragging = TRUE,
                 !.hasMoved = FALSE,
                 !.dragStartX = e.clientX,
                 !.dragStartY = e.clientY,
                 !.dragStartPosX = b.posX,
                 !.dragStartPosY = b.posY]

\* faulty variant: the clamp forgotten
ClampToRadius_None(x, y, radius) == [x |-> x, y |-> y]

\* the circular clamp of handleDragMove and of updatePosition
ClampToRadius(x, y, radius) ==
  LET dx == x - centerX
      dy == y - centerY
      dist == Dist(dx, dy)
  IN IF dist > radius
     THEN [x |-> centerX + Div(dx * radius, dist),
           y |-> centerY + Div(dy * radius, dist)]
     ELSE [x |-> x, y |-> y]

\* faulty variant: the delta added to the current position instead of the position
\* at drag start
handleDragMove_Accumulate(b, e) ==
  IF ~b.isDragging THEN b
  ELSE LET deltaX == e.clientX - b.dragStartX
           deltaY == e.clientY - b.dragStartY
           moved == Abs(deltaX) > moveThreshold \/ Abs(deltaY) > moveThreshold
           p == ClampToRadius(b.posX + Div(deltaX * One, containerSize),
                              b.posY + Div(deltaY * One, containerSize),
                              maxRadius)
       IN [b EXCEPT !.hasMoved = b.hasMoved \/ moved,
                    !.posX = p.x,
                    !.posY = p.y]

\* handleDragMove(e)
handleDragMove(b, e) ==
  IF ~b.isDragging THEN b
  ELSE LET deltaX == e.clientX - b.dragStartX
           deltaY == e.clientY - b.dragStartY
           moved == Abs(deltaX) > moveThreshold \/ Abs(deltaY) > moveThreshold
           deltaXPercent == Div(deltaX * One, containerSize)
           deltaYPercent == Div(deltaY * One, containerSize)
           p == ClampToRadius(b.dragStartPosX + deltaXPercent,
                              b.dragStartPosY + deltaYPercent, maxRadius)
       IN [b EXCEPT !.hasMoved = b.hasMoved \/ moved,
                    !.posX = p.x,
                    !.posY = p.y]

\* faulty variant: the release is stamped with the time of the frame to come
handleDragEnd_NextFrame(b) ==
  IF ~b.isDragging THEN b
  ELSE IF ~b.hasMoved THEN [b EXCEPT !.isDragging = FALSE]
  ELSE LET dist == Dist(b.posX - centerX, b.posY - centerY)
           released == [b EXCEPT !.isDragging = FALSE,
                                 !.wasDragged = TRUE,
                                 !.oscillationPhaseOffset = b.time + frameStep,
                                 !.dragEndPosX = b.posX,
                                 !.dragEndPosY = b.posY]
       IN IF dist > normalRadius
          THEN [released EXCEPT !.edgeReturnEasing = TRUE,
                                !.edgeReturnStart = b.time + frameStep,
                                !.edgeReturnStartX = b.posX,
                                !.edgeReturnStartY = b.posY]
          ELSE released

\* handleDragEnd(), without the timer it starts
handleDragEnd(b) ==
  IF ~b.isDragging THEN b
  ELSE IF ~b.hasMoved THEN [b EXCEPT !.isDragging = FALSE]
  ELSE LET dist == Dist(b.posX - centerX, b.posY - centerY)
           released == [b EXCEPT !.isDragging = FALSE,
                                 !.wasDragged = TRUE,
                                 !.oscillationPhaseOffset = b.time,
                                 !.dragEndPosX = b.posX,
                                 !.dragEndPosY = b.posY]
       IN IF dist > normalRadius
          THEN [released EXCEPT !.edgeReturnEasing = TRUE,
                                !.edgeReturnStart = b.time,
                                !.edgeReturnStartX = b.posX,
                                !.edgeReturnStartY = b.posY]
          ELSE released

\* faulty variant: the edge return aims at the drag limit instead of normalRadius
EdgeTarget_DragLimit(startX, startY) ==
  LET edgeDx == startX - centerX
      edgeDy == startY - centerY
      edgeDist == Dist(edgeDx, edgeDy)
  IN [x |-> centerX + Div(edgeDx * maxRadius, edgeDist),
      y |-> centerY + Div(edgeDy * maxRadius, edgeDist)]

\* the clamped target of the edge return: the point at normalRadius in the
\* direction of the release point
EdgeTarget(startX, startY) ==
  LET edgeDx == startX - centerX
      edgeDy == startY - centerY
      edgeDist == Dist(edgeDx, edgeDy)
  IN [x |-> centerX + Div(edgeDx * normalRadius, edgeDist),
      y |-> centerY + Div(edgeDy * normalRadius, edgeDist)]

\* a + (b - a) * t
Lerp(a, b, t) == a + Mul(b - a, t)

\* the direction actually used: the trend direction, negated when the base
\* is beyond returnThreshold and the trend points outward
TrendDir(angle, baseX, baseY) ==
  LET dirX == DirX(angle)
      dirY == DirY(angle)
      baseDx == baseX - centerX
      baseDy == baseY - centerY
      baseDist == Dist(baseDx, baseDy)
      outwardX == Div(baseDx * One, baseDist)
      outwardY == Div(baseDy * One, baseDist)
      dotProduct == dirX * outwardX + dirY * outwardY
  IN IF baseDist > returnThreshold /\ dotProduct > 0
     THEN [x |-> -dirX, y |-> -dirY]
     ELSE [x |-> dirX, y |-> dirY]

\* Math.sin(oscillationTime * movementSpeed * 0.8) * maxRadius
Oscillation(oscillationTime) == Mul(Sin(oscillationTime * 12), oscillationRadius)

\* the locals of updatePosition(time) past the two early returns
Locals(b, time) ==
  LET edgeT == Progress(time - b.edgeReturnStart, edgeReturnDuration)
      edgeEaseT == EaseOutCubic(edgeT)
      clamped == EdgeTarget(b.edgeReturnStartX, b.edgeReturnStartY)
      baseX == IF b.edgeReturnEasing
               THEN Lerp(b.edgeReturnStartX, clamped.x, edgeEaseT)
               ELSE IF b.dragEndPosX # Undefined THEN b.dragEndPosX ELSE centerX
      baseY == IF b.edgeReturnEasing
               THEN Lerp(b.edgeReturnStartY, clamped.y, edgeEaseT)
               ELSE IF b.dragEndPosY # Undefined THEN b.dragEndPosY ELSE centerY
      dir == TrendDir(b.trendAngle, baseX, baseY)
      oscillation == Oscillation(time - b.oscillationPhaseOffset)
      wobble == Div(Noise(b.noise, time), 20)
      perpX == Mul(-dir.y, wobble)
      perpY == Mul(dir.x, wobble)
      target == ClampToRadius(baseX + Mul(dir.x, oscillation) + perpX,
                              baseY + Mul(dir.y, oscillation) + perpY,
                              absoluteMaxRadius)
      lockT == Progress(time - b.centerLockEaseStart, centerLockEaseDuration)
  IN [ran |-> TRUE,
      edgeEasing |-> b.edgeReturnEasing, edgeT |-> edgeT,
      edgeEaseT |-> edgeEaseT,
      baseX |-> baseX, baseY |-> baseY,
      dirX |-> dir.x, dirY |-> dir.y, oscillation |-> oscillation,
      targetX |-> target.x, targetY |-> target.y,
      lockEasing |-> b.centerLockEaseOut, lockT |-> lockT,
      lockEaseT |-> EaseOutCubic(lockT)]

\* the locals of a call that returned early
NoLocals ==
  [ran |-> FALSE, edgeEasing |-> FALSE, edgeT |-> 0, edgeEaseT |-> 0,
   baseX |-> centerX, baseY |-> centerY, dirX |-> 0, dirY |-> 0,
   oscillation |-> 0, targetX |-> centerX, targetY |-> centerY,
   lockEasing |-> FALSE, lockT |-> 0, lockEaseT |-> 0]

\* faulty variant: the isDragging early return forgotten
updatePosition_NoDragGuard(b, time) ==
  IF b.centerLock THEN [b EXCEPT !.posX = centerX, !.posY = centerY]
  ELSE LET l == Locals(b, time)
           b1 == IF b.edgeReturnEasing
                 THEN [b EXCEPT !.dragEndPosX = l.baseX,
                                !.dragEndPosY = l.baseY,
                                !.edgeReturnEasing = ~(l.edgeT >= One)]
                 ELSE b
       IN IF b.centerLockEaseOut
          THEN [b1 EXCEPT !.posX = Lerp(centerX, l.targetX, l.lockEaseT),
                          !.posY = Lerp(centerY, l.targetY, l.lockEaseT),
                          !.centerLockEaseOut = ~(l.lockT >= One)]
          ELSE [b1 EXCEPT !.posX = l.targetX, !.posY = l.targetY]

\* faulty variant: the edge return ends on t > 1 instead of t >= 1
updatePosition_StrictEnd(b, time) ==
  IF b.isDragging THEN b
  ELSE IF b.centerLock THEN [b EXCEPT !.posX = centerX, !.posY = centerY]
  ELSE LET l == Locals(b, time)
           b1 == IF b.edgeReturnEasing
                 THEN [b EXCEPT !.dragEndPosX = l.baseX,
                                !.dragEndPosY = l.baseY,
                                !.edgeReturnEasing = ~(l.edgeT > One)]
                 ELSE b
       IN IF b.centerLockEaseOut
          THEN [b1 EXCEPT !.posX = Lerp(centerX, l.targetX, l.lockEaseT),
                          !.posY = Lerp(centerY, l.targetY, l.lockEaseT),
                          !.centerLockEaseOut = ~(l.lockT >= One)]
          ELSE [b1 EXCEPT !.posX = l.targetX, !.posY = l.targetY]

\* faulty variant: the ease-out from the center lock ends at half its duration
updatePosition_HalfEase(b, time) ==
  IF b.isDragging THEN b
  ELSE IF b.centerLock THEN [b EXCEPT !.posX = centerX, !.posY = centerY]
  ELSE LET l == Locals(b, time)
           b1 == IF b.edgeReturnEasing
                 THEN [b EXCEPT !.dragEndPosX = l.baseX,
                                !.dragEndPosY = l.baseY,
                                !.edgeReturnEasing = ~(l.edgeT >= One)]
                 ELSE b
       IN IF b.centerLockEaseOut
          THEN [b1 EXCEPT !.posX = Lerp(centerX, l.targetX, l.lockEaseT),
                          !.posY = Lerp(centerY, l.targetY, l.lockEaseT),
                          !.centerLockEaseOut = ~(2 * l.lockT >= One)]
          ELSE [b1 EXCEPT !.posX = l.targetX, !.posY = l.targetY]

\* updatePosition(time)
updatePosition(b, time) ==
  IF b.isDragging THEN b
  ELSE IF b.centerLock THEN [b EXCEPT !.posX = centerX, !.posY = centerY]
  ELSE LET l == Locals(b, time)
           b1 == IF b.edgeReturnEasing
                 THEN [b EXCEPT !.dragEndPosX = l.baseX,
                                !.dragEndPosY = l.baseY,
                                !.edgeReturnEasing = ~(l.edgeT >= One)]
                 ELSE b
       IN IF b.centerLockEaseOut
          THEN [b1 EXCEPT !.posX = Lerp(centerX, l.targetX, l.lockEaseT),
                          !.posY = Lerp(centerY, l.targetY, l.lockEaseT),
                          !.centerLockEaseOut = ~(l.lockT >= One)]
          ELSE [b1 EXCEPT !.posX = l.targetX, !.posY = l.targetY]

\* setTrendDirection(angle)
setTrendDirection(b, angle) == [b EXCEPT !.trendAngle = angle]

\* lockToCenter()
lockToCenter(b) ==
  [b EXCEPT !.centerLock = TRUE,
            !.centerLockEaseOut = FALSE,
            !.dragEndPosX = Undefined,
            !.dragEndPosY = Undefined]

\* faulty variant: the ease-out never ends (the flag is set, its start time is not)
unlockFromCenter_NoEase(b) ==
  [b EXCEPT !.centerLock = FALSE,
            !.oscillationPhaseOffset = b.time,
            !.dragEndPosX = Undefined,
            !.dragEndPosY = Undefined]

\* unlockFromCenter()
unlockFromCenter(b) ==
  [b EXCEPT !.centerLock = FALSE,
            !.centerLockEaseOut = TRUE,
            !.centerLockEaseStart = b.time,
            !.oscillationPhaseOffset = b.time,
            !.dragEndPosX = Undefined,
            !.dragEndPosY = Undefined]

\* animate(): one frame
animate(b) ==
  LET time == b.time + frameStep
  IN updatePosition([b EXCEPT !.time = time], time)

\* the fields set by the constructor before its first animate()
Constructed(seed, signs) ==
  [time |-> seed, noise |-> signs,
   posX |-> centerX, posY |-> centerY,
   trendAngle |-> initialTrend,
   centerLock |-> FALSE, centerLockEaseOut |-> FALSE,
   centerLockEaseStart |-> 0, oscillationPhaseOffset |-> 0,
   isDragging |-> FALSE, wasDragged |-> FALSE, hasMoved |-> FALSE,
   dragStartX |-> 0, dragStartY |-> 0,
   dragStartPosX |-> 0, dragStartPosY |-> 0,
   edgeReturnEasing |-> FALSE, edgeReturnStart |-> 0,
   edgeReturnStartX |-> 0, edgeReturnStartY |-> 0,
   dragEndPosX |-> Undefined, dragEndPosY |-> Undefined]

\* the locals of the updatePosition call made by animate() on b
FrameLocals(b) ==
  IF b.isDragging \/ b.centerLock THEN NoLocals
  ELSE Locals(b, b.time + frameStep)

\* radius of the stored base anchor, squared
BaseRadius2(b) ==
  (b.dragEndPosX - centerX) * (b.dragEndPosX - centerX)
  + (b.dragEndPosY - centerY) * (b.dragEndPosY - centerY)

\* history kept for the properties: op, the last operation; loc, the locals
\* of the last frame; edgeR2, the squared radius of the base anchor as last
\* stored by the edge return of the latest release (Undefined when the
\* latest release started none, or after a lock or unlock); fresh, whether
\* an unlock reset the base and no drag has been released since
Hist(op, loc, edgeR2, fresh) ==
  [op |-> op, loc |-> loc, edgeR2 |-> edgeR2, fresh |-> fresh]

\* ---------------------------------------------------- appearance of the blob
initialGlucose == Tenths(65)

\* the noise values seen by the frame the constructor runs
InitialPathNoise ==
  [angle |-> <<0, 0, 0, 0>>, radius |-> <<0, 0, 0, 0>>,
   handle1 |-> <<0, 0, 0, 0>>, handle2 |-> <<0, 0, 0, 0>>]

\* glucoseValue, the colors and the scale set by setGlucose
\* faulty variant: the displayed color is left to a later transition
setGlucose_Target(l, value) ==
  [l EXCEPT !.glucoseValue = value,
            !.targetColor = getColorForGlucose(value),
            !.currentScale = getScaleForGlucose(value)]

setGlucose(l, value) ==
  [l EXCEPT !.glucoseValue = value,
            !.targetColor = getColorForGlucose(value),
            !.currentColor = getColorForGlucose(value),
            !.currentScale = getScaleForGlucose(value)]

\* the appearance fields after the constructor and its first animate()
ConstructedLook(b, field) ==
  [glucoseValue |-> initialGlucose,
   currentColor |-> getColorForGlucose(initialGlucose),
   targetColor |-> getColorForGlucose(initialGlucose),
   currentScale |-> getScaleForGlucose(initialGlucose),
   path |-> generateBlobPath([b EXCEPT !.time = b.time + frameStep],
                             b.time + frameStep, field)]

\* ------------------------------------------------------ GraphSlider state
\* v.toFixed(0) of a graph coordinate v >= 0
ToFixed0(v) == ((v + Px \div 2) \div Px) * Px

\* Shapes of generateRandomPath: the random start y and the random middle
\* points (numPoints - 1 of them, numPoints being 4 or 5); the second one
\* touches the boundaries 106 and 151 without crossing them.
CurveShapes ==
  {[startY |-> 6037, mids |-> <<80 * Px, 100 * Px, 120 * Px>>],
   [startY |-> 120 * Px, mids |-> <<106 * Px, 130 * Px, 151 * Px, 140 * Px>>]}

\* The anchor points of the path generateRandomPath builds: the start point
\* as computed, the others as written with toFixed(0).
generateRandomPath(endY, shape) ==
  LET endX == 206 * Px
      startX == 0
      numPoints == Len(shape.mids) + 1
      middle(i) ==
        [x |-> ToFixed0(startX + Div(i * (endX - startX), numPoints)),
         y |-> ToFixed0(Max(50 * Px, Min(200 * Px, shape.mids[i])))]
  IN <<[x |-> startX, y |-> shape.startY]>>
     \o [i \in 1..(numPoints - 1) |-> middle(i)]
     \o <<[x |-> ToFixed0(endX), y |-> ToFixed0(endY)]>>

\* the path of the markup, sampled by init()
OriginalCurve ==
  <<[x |-> 0, y |-> 130 * Px], [x |-> 50 * Px, y |-> 9850],
    [x |-> 100 * Px, y |-> 96 * Px], [x |-> 150 * Px, y |-> 15320],
    [x |-> 206 * Px, y |-> 126 * Px]>>

\* other curves handed to updateGraphPath: one that does not reach the ends
\* of the graph, one whose points do not come in x order, and two that pass
\* through boundaries at samples lying exactly on them (one falling, one
\* rising in y), and a path of length zero
OtherCurves ==
  {<<[x |-> 100 * Px, y |-> 130 * Px], [x |-> 100 * Px, y |-> 130 * Px]>>,
   <<[x |-> 6 * Px, y |-> 130 * Px], [x |-> 100 * Px, y |-> 90 * Px],
     [x |-> 200 * Px, y |-> 160 * Px]>>,
   <<[x |-> 0, y |-> 100 * Px], [x |-> 120 * Px, y |-> 170 * Px],
     [x |-> 60 * Px, y |-> 80 * Px], [x |-> 206 * Px, y |-> 120 * Px]>>,
   <<[x |-> 0, y |-> 170 * Px], [x |-> 40 * Px, y |-> 156 * Px],
     [x |-> 80 * Px, y |-> 156 * Px], [x |-> 120 * Px, y |-> 130 * Px],
     [x |-> 160 * Px, y |-> 106 * Px], [x |-> 206 * Px, y |-> 90 * Px]>>,
   <<[x |-> 0, y |-> 90 * Px], [x |-> 30 * Px, y |-> 96 * Px],
     [x |-> 60 * Px, y |-> 100 * Px], [x |-> 90 * Px, y |-> 106 * Px],
     [x |-> 120 * Px, y |-> 106 * Px], [x |-> 135 * Px, y |-> 133 * Px],
     [x |-> 150 * Px, y |-> 160 * Px], [x |-> 206 * Px, y |-> 170 * Px]>>}

\* Math.floor and Math.ceil of a graph coordinate v >= 0
Floor(v) == (v \div Px) * Px
Ceil(v) == ((v + Px - 1) \div Px) * Px

\* The samples are points of the path; the table is sorted by x.
samplePath(points) == SortByX(points)

NoColor == <<>>

renderDotAtX(s, x0) ==
  LET x == Max(minX, Min(maxX, x0))
      y == getYForX(s.pathSamples, x)
      glucose == yToGlucose(y)
      isAtNow == Abs(x - maxX) < 5 * Px
      currentSegment == getSegmentForX(s.segments, x)
      startX == Floor(currentSegment.startX) - 2 * Px
      endX == Ceil(currentSegment.endX) + 3 * Px
  IN [s EXCEPT !.currentX = x,
               !.dotY = y,
               !.glucose = glucose,
               !.segmentColor = IF isAtNow THEN s.segmentColor
                                ELSE getColorForY(y),
               !.glucoseColor = GraphSlider_getColorForGlucose(glucose),
               !.clip = [x |-> startX,
                         y |-> ClipBand(y).clipY,
                         width |-> endX - startX,
                         height |-> ClipBand(y).clipHeight]]

\* faulty variant: the segments are built from the crossings of the previous
\* curve
updateGraphPath_StaleCrossings(s, newPath) ==
  LET pathSamples == samplePath(newPath)
      boundaryCrossings == findBoundaryCrossings(pathSamples)
  IN renderDotAtX([s EXCEPT !.originalPathData = newPath,
                            !.pathSamples = pathSamples,
                            !.boundaryCrossings = boundaryCrossings,
                            !.segments = buildSegments(pathSamples,
                                                       s.boundaryCrossings)],
                  s.currentX)

\* originalPathData is stored, then samplePath(), then
\* findBoundaryCrossings() with its buildSegments(), then the dot is
\* rendered at currentX
updateGraphPath(s, newPath) ==
  LET pathSamples == samplePath(newPath)
      boundaryCrossings == findBoundaryCrossings(pathSamples)
  IN renderDotAtX([s EXCEPT !.originalPathData = newPath,
                            !.pathSamples = pathSamples,
                            !.boundaryCrossings = boundaryCrossings,
                            !.segments = buildSegments(pathSamples,
                                                       boundaryCrossings)],
                  s.currentX)

\* the slider after the constructor and init(); value and targetY record the
\* arguments of the generateGraphForGlucose that made the present curve
ConstructedSlider ==
  updateGraphPath([originalPathData |-> <<>>,
                   pathSamples |-> <<>>, boundaryCrossings |-> <<>>,
                   segments |-> <<>>, currentX |-> maxX, dotY |-> 0,
                   glucose |-> 0, segmentColor |-> NoColor,
                   glucoseColor |-> NoColor,
                   clip |-> [x |-> 0, y |-> 0, width |-> 0, height |-> 0],
                   value |-> Undefined, targetY |-> Undefined],
                  OriginalCurve)

\* slope (y2 - y1) / (x2 - x1) of the curve around x, as a fraction
Slope(pathSamples, x) ==
  LET delta == 8 * Px
      x1 == Max(minX, x - delta)
      x2 == Min(maxX, x + delta)
  IN [rise |-> getYForX(pathSamples, x2) - getYForX(pathSamples, x1),
      run |-> x2 - x1]

\* faulty variant: the angle of the tangent in whole degrees, not one of the
\* five steps
getSlopeAngleAtX_Tangent(pathSamples, x) ==
  LET slope == Slope(pathSamples, x)
  IN 90 + Max(-90, Min(90, Div(45 * slope.rise, slope.run)))

\* the slope is compared with -0.8, -0.2, 0.2 and 0.8; run is positive
getSlopeAngleAtX(pathSamples, x) ==
  LET slope == Slope(pathSamples, x)
  IN IF 10 * slope.rise < -8 * slope.run THEN TREND_ANGLES[1]
     ELSE IF 10 * slope.rise < -2 * slope.run THEN TREND_ANGLES[2]
     ELSE IF 10 * slope.rise < 2 * slope.run THEN TREND_ANGLES[3]
     ELSE IF 10 * slope.rise < 8 * slope.run THEN TREND_ANGLES[4]
     ELSE TREND_ANGLES[5]

\* ----------------------------------------------------------- app.js state
\* the elements toggleGraphView looks up and window.animateBlobSquish, which
\* the page may lack
PageParts == {"graph", "blobContainer", "animateBlobSquish"}

\* the module variables as declared; the page as loaded shows the blob, the
\* graph carries the class hidden, and no callback is pending;
\* currentTrendIndex is the variable of the trend arrow button's listener,
\* Undefined on a page without the button
LoadedApp ==
  [currentScreenIndex |-> 0, currentTrendAngle |-> 45,
   isDragging |-> FALSE, startY |-> 0, currentY |-> 0,
   isGraphVisible |-> FALSE, isAnimating |-> FALSE,
   currentTrendIndex |-> Undefined,
   present |-> PageParts,
   graph |-> [hidden |-> TRUE, visible |-> FALSE],
   blobContainer |-> [display |-> "", fadeOut |-> FALSE, opacity |-> "",
                      transition |-> ""],
   pending |-> [squish |-> 0, frames |-> <<>>, timeouts |-> <<>>]]

\* the trend part of randomizeInitialValues; randomTrendIndex counts from 0
randomizeInitialValues(a, randomTrendIndex) ==
  [a EXCEPT !.currentTrendAngle = TREND_ANGLES[randomTrendIndex + 1]]

\* app.js setTrendDirection(stepIndex); stepIndex counts from 0
App_setTrendDirection(a, stepIndex) ==
  [a EXCEPT !.currentTrendAngle = TREND_ANGLES[stepIndex + 1]]

updateTrendFromAngle(a, angle) == [a EXCEPT !.currentTrendAngle = angle]

\* the step indexes whose angles are TrendInputs
TrendSteps == {i \in 0..4 : TREND_ANGLES[i + 1] \in TrendInputs}

\* app.js after DOMContentLoaded and the construction of the graph slider,
\* whose init() renders the dot at maxX
ConstructedApp(randomTrendIndex) ==
  updateTrendFromAngle(randomizeInitialValues(LoadedApp, randomTrendIndex),
                       getSlopeAngleAtX(ConstructedSlider.pathSamples,
                                        ConstructedSlider.currentX))

Init ==
  \E seed \in TimeSeeds, signs \in NoiseTables, randomTrendIndex \in 0..4 :
    /\ look = ConstructedLook(Constructed(seed, signs), InitialPathNoise)
    /\ slider = ConstructedSlider
    /\ app = ConstructedApp(randomTrendIndex)
    /\ blob = setTrendDirection(animate(Constructed(seed, signs)),
                                ConstructedApp(randomTrendIndex).currentTrendAngle)
    /\ timers = 0
    /\ frames = 0
    /\ events = 0
    /\ last = Hist("constructor", FrameLocals(Constructed(seed, signs)),
                   Undefined, FALSE)

\* events are delivered between frames, every EventPeriod-th frame
EventFrame == frames % EventPeriod = 0 /\ events < MaxEvents

Counted == events' = IF blob' # blob THEN events + 1 ELSE events

Animate ==
  /\ frames < MaxFrames
  /\ blob' = animate(blob)
  /\ frames' = frames + 1
  /\ UNCHANGED <<timers, events, look, slider, app>>
  /\ last' = Hist("animate", FrameLocals(blob),
                  IF /\ ~blob.isDragging /\ ~blob.centerLock
                     /\ blob.edgeReturnEasing /\ last.edgeR2 # Undefined
                  THEN BaseRadius2(blob') ELSE last.edgeR2,
                  last.fresh)

DragStart ==
  /\ EventFrame
  /\ \E e \in StartPointers : blob' = handleDragStart(blob, e)
  /\ UNCHANGED <<timers, frames, look, slider, app>> /\ Counted
  /\ last' = Hist("handleDragStart", NoLocals, last.edgeR2, last.fresh)

DragMove ==
  /\ EventFrame
  /\ \E e \in MovePointers : blob' = handleDragMove(blob, e)
  /\ UNCHANGED <<timers, frames, look, slider, app>> /\ Counted
  /\ last' = Hist("handleDragMove", NoLocals, last.edgeR2, last.fresh)

DragEnd ==
  /\ EventFrame
  /\ (blob.isDragging /\ blob.hasMoved) => timers < MaxTimers
  /\ blob' = handleDragEnd(blob)
  /\ timers' = IF blob.isDragging /\ blob.hasMoved THEN timers + 1 ELSE timers
  /\ UNCHANGED <<frames, look, slider, app>> /\ Counted
  /\ last' = Hist("handleDragEnd", NoLocals,
                  IF blob.isDragging /\ blob.hasMoved
                  THEN (IF blob'.edgeReturnStart = blob.time /\ blob'.edgeReturnEasing
                           /\ Dist(blob.posX - centerX, blob.posY - centerY) > normalRadius
                        THEN BaseRadius2(blob') ELSE Undefined)
                  ELSE last.edgeR2,
                  IF blob.isDragging /\ blob.hasMoved THEN FALSE ELSE last.fresh)

\* the setTimeout callback of handleDragEnd
WasDraggedTimeout ==
  /\ timers > 0
  /\ timers' = timers - 1
  /\ blob' = [blob EXCEPT !.wasDragged = FALSE]
  /\ UNCHANGED <<frames, events, look, slider, app>>
  /\ last' = Hist("timeout", NoLocals, last.edgeR2, last.fresh)

SetTrendDirection ==
  /\ EventFrame
  /\ \E stepIndex \in TrendSteps :
       /\ app' = App_setTrendDirection(app, stepIndex)
       /\ blob' = setTrendDirection(blob, app'.currentTrendAngle)
  /\ UNCHANGED <<timers, frames, look, slider>> /\ Counted
  /\ last' = Hist("setTrendDirection", NoLocals, last.edgeR2, last.fresh)

LockToCenter ==
  /\ EventFrame
  /\ blob' = lockToCenter(blob)
  /\ UNCHANGED <<timers, frames, look, slider, app>> /\ Counted
  /\ last' = Hist("lockToCenter", NoLocals, Undefined, FALSE)

UnlockFromCenter ==
  /\ EventFrame
  /\ blob' = unlockFromCenter(blob)
  /\ UNCHANGED <<timers, frames, look, slider, app>> /\ Counted
  /\ last' = Hist("unlockFromCenter", NoLocals, Undefined, TRUE)

Next ==
  \/ Animate
  \/ DragStart
  \/ DragMove
  \/ DragEnd
  \/ WasDraggedTimeout
  \/ SetTrendDirection
  \/ LockToCenter
  \/ UnlockFromCenter

Spec == Init /\ [][Next]_vars

\* requestAnimationFrame reschedules animate() after every frame.  An unlock
\* is taken only while the frames left cover the whole ease-out, so that the
\* frame bound never cuts an ease-out short.
UnlockRoom == frames + (centerLockEaseDuration \div frameStep) + 1 <= MaxFrames

FairEvent == events < MaxFairEvents

NextFair ==
  \/ Animate
  \/ (FairEvent /\ DragStart)
  \/ (FairEvent /\ DragMove)
  \/ (FairEvent /\ DragEnd)
  \/ WasDraggedTimeout
  \/ (FairEvent /\ SetTrendDirection)
  \/ (FairEvent /\ LockToCenter)
  \/ (FairEvent /\ UnlockRoom /\ UnlockFromCenter)

\* requestAnimationFrame keeps scheduling animate: the frame counter, which
\* only Animate advances, cannot stay below its bound forever
FrameScheduled == frames < MaxFrames /\ frames' = frames + 1

FairSpec == Init /\ [][NextFair]_vars /\ WF_frames(FrameScheduled)

\* n consecutive frames of the animation loop
RECURSIVE Frames(_, _)
Frames(b, n) ==
  IF n = 0 THEN b
  ELSE IF n = 1 THEN animate(b)
  ELSE CHOOSE r \in {Frames(half, n - (n \div 2)) :
                       half \in {Frames(b, n \div 2)}} : TRUE

\* BurstFrames frames with no event in between
AnimateBurst ==
  /\ frames + BurstFrames <= MaxLongFrames
  /\ blob' = Frames(blob, BurstFrames)
  /\ frames' = frames + BurstFrames
  /\ UNCHANGED <<timers, events, look, slider, app>>
  /\ last' = Hist("animate", FrameLocals(Frames(blob, BurstFrames - 1)),
                  IF /\ ~blob.isDragging /\ ~blob.centerLock
                     /\ blob.edgeReturnEasing /\ last.edgeR2 # Undefined
                  THEN BaseRadius2(blob') ELSE last.edgeR2,
                  last.fresh)

\* the long runs take their events before the first burst
LongEvent == frames = 0 /\ events < MaxLongEvents

NextLong ==
  \/ AnimateBurst
  \/ (LongEvent /\ DragStart)
  \/ (LongEvent /\ DragMove)
  \/ (LongEvent /\ DragEnd)
  \/ WasDraggedTimeout
  \/ (LongEvent /\ SetTrendDirection)
  \/ (LongEvent /\ LockToCenter)
  \/ (LongEvent /\ UnlockFromCenter)

SpecLong == Init /\ [][NextLong]_vars

\* ------------------------------------------------- color and scale of the blob
\* values branch at
SwitchValues ==
  {Tenths(37), Tenths(40), Tenths(45), Tenths(48),
   Tenths(87), Tenths(90), Tenths(100), Tenths(103)}

\* values passed to setGlucose: a grid of 0.05 from 1.0 up, and the
\* nearest values on both sides of every value the mapper branches at
GlucoseInputs ==
  {k * (One \div 20) : k \in 20..(20 * MaxGlucoseInput)}
  \cup {v + d : v \in SwitchValues, d \in {-1, 1}}

SetGlucose ==
  /\ \E value \in GlucoseInputs : look' = setGlucose(look, value)
  /\ last' = Hist("setGlucose", NoLocals, last.edgeR2, last.fresh)
  /\ UNCHANGED <<blob, timers, frames, events, slider, app>>

NextColor == SetGlucose

SpecColor == Init /\ [][NextColor]_vars

\* ---------------------------------------------------------- outline frames
\* animate(): the outline is generated for the new time, before
\* updatePosition runs
ShapeFrame ==
  /\ frames < MaxShapeFrames
  /\ \E field \in PathNoises :
       look' = [look EXCEPT !.path =
                  generateBlobPath([blob EXCEPT !.time = blob.time + frameStep],
                                   blob.time + frameStep, field)]
  /\ blob' = animate(blob)
  /\ frames' = frames + 1
  /\ last' = Hist("animate", FrameLocals(blob), last.edgeR2, last.fresh)
  /\ UNCHANGED <<timers, events, slider, app>>

NextShape ==
  \/ ShapeFrame
  \/ LockToCenter
  \/ UnlockFromCenter

SpecShape == Init /\ [][NextShape]_vars

\* ------------------------------------------------------------ graph events
\* the end of renderDotAtX: updateGlucoseDisplay hands the slope angle at the
\* cursor to window.Sweetie.updateTrendFromAngle, which passes it to the blob
DisplayedTrend ==
  LET trendAngle == getSlopeAngleAtX(slider'.pathSamples, slider'.currentX)
  IN /\ app' = updateTrendFromAngle(app, trendAngle)
     /\ blob' = setTrendDirection(blob, trendAngle)

\* values of the debug slider
GraphValues ==
  {Tenths(k) : k \in {15, 37, 42, 65, 97, 103, 10 * MaxGraphGlucose}}
  \cup {v + d : v \in {Tenths(40), Tenths(45), Tenths(90), Tenths(95), Tenths(100)},
                d \in {-10, 0, 10}}

\* x positions the pointer drags the graph slider to
XProbes == {k * 50 * Px : k \in 1..4} \cup {-25 * Px, 230 * Px}

\* app.js: the debug slider is moved to value and released: the input
\* handler's setGlucoseValue(value), then generateGraphForGlucose on mouseup
SliderRelease ==
  /\ \E value \in GraphValues, shape \in CurveShapes :
       LET targetY == glucoseToY(value)
       IN /\ look' = setGlucose(look, value)
          /\ slider' = [updateGraphPath(slider,
                                        generateRandomPath(targetY, shape))
                          EXCEPT !.value = value, !.targetY = targetY]
  /\ DisplayedTrend
  /\ UNCHANGED <<timers, frames, events, last>>

\* updateGraphPath with a path that was not generated for a value
UpdateGraphPath ==
  /\ \E curve \in OtherCurves \cup {OriginalCurve} :
       slider' = [updateGraphPath(slider, curve)
                   EXCEPT !.value = Undefined, !.targetY = Undefined]
  /\ DisplayedTrend
  /\ UNCHANGED <<timers, frames, events, last, look>>

\* a drag of the graph slider: updateSliderPosition(x, true)
RenderDotAtX ==
  /\ \E x \in XProbes : slider' = renderDotAtX(slider, x)
  /\ DisplayedTrend
  /\ UNCHANGED <<timers, frames, events, last, look>>

NextGraph ==
  \/ SliderRelease
  \/ UpdateGraphPath
  \/ RenderDotAtX

SpecGraph == Init /\ [][NextGraph]_vars

\* ------------------------------------------------------- screen navigation
screens == <<"home", "assistant", "tracking">>
SWIPE_THRESHOLD == 50            \* px

\* navigateTo(screens[newIndex + 1], direction): the target screen exists and
\* is not the active one
navigateTo(a, newIndex) == [a EXCEPT !.currentScreenIndex = newIndex]

nextScreen(a) ==
  IF a.currentScreenIndex < Len(screens) - 1
  THEN navigateTo(a, a.currentScreenIndex + 1) ELSE a

prevScreen(a) ==
  IF a.currentScreenIndex > 0
  THEN navigateTo(a, a.currentScreenIndex - 1) ELSE a

\* app.js handleDragStart(e), the mousedown listener of the display
App_handleDragStart(a, e) ==
  [a EXCEPT !.isDragging = TRUE, !.startY = e.clientY, !.currentY = e.clientY]

\* app.js handleDragMove(e)
App_handleDragMove(a, e) ==
  IF ~a.isDragging THEN a ELSE [a EXCEPT !.currentY = e.clientY]

\* faulty variant: the threshold itself is not enough
App_handleDragEnd_Above(a, b) ==
  IF ~a.isDragging THEN a
  ELSE LET ended == [a EXCEPT !.isDragging = FALSE]
           deltaY == a.startY - a.currentY
       IN IF b.isDragging THEN ended
          ELSE IF Abs(deltaY) > SWIPE_THRESHOLD
               THEN (IF deltaY > 0 THEN nextScreen(ended) ELSE prevScreen(ended))
               ELSE ended

\* app.js handleDragEnd(), the mouseup and mouseleave listener of the
\* display; b is the blob as the listener finds it
App_handleDragEnd(a, b) ==
  IF ~a.isDragging THEN a
  ELSE LET ended == [a EXCEPT !.isDragging = FALSE]
           deltaY == a.startY - a.currentY
       IN IF b.isDragging THEN ended
          ELSE IF Abs(deltaY) >= SWIPE_THRESHOLD
               THEN (IF deltaY > 0 THEN nextScreen(ended) ELSE prevScreen(ended))
               ELSE ended

\* handleTouchStart(e): a touch on a button starts no gesture
handleTouchStart(a, e, onButton) ==
  IF onButton THEN a
  ELSE [a EXCEPT !.isDragging = TRUE, !.startY = e.clientY,
                 !.currentY = e.clientY]

\* handleTouchMove(e)
handleTouchMove(a, e) ==
  IF ~a.isDragging THEN a ELSE [a EXCEPT !.currentY = e.clientY]

\* faulty variant: the blob's drag is not looked at
handleTouchEnd_NoBlobCheck(a, b) ==
  IF ~a.isDragging THEN a
  ELSE LET ended == [a EXCEPT !.isDragging = FALSE]
           deltaY == a.startY - a.currentY
       IN IF Abs(deltaY) >= SWIPE_THRESHOLD
          THEN (IF deltaY > 0 THEN nextScreen(ended) ELSE prevScreen(ended))
          ELSE ended

\* handleTouchEnd(e)
handleTouchEnd(a, b) ==
  IF ~a.isDragging THEN a
  ELSE LET ended == [a EXCEPT !.isDragging = FALSE]
           deltaY == a.startY - a.currentY
       IN IF b.isDragging THEN ended
          ELSE IF Abs(deltaY) >= SWIPE_THRESHOLD
               THEN (IF deltaY > 0 THEN nextScreen(ended) ELSE prevScreen(ended))
               ELSE ended

\* positions the pointer moves to after going down at StartPointers: 50 and
\* 49 px above, 49 and 50 px below
NavMoves == {Pt(126, 76), Pt(126, 77), Pt(126, 175), Pt(126, 176)}

\* 120 px below: a blob dragged there from the center is beyond normalRadius
EdgeMoves == {Pt(126, 246)}

\* what the pointer goes down on; the blob is on the home screen
NavTargets == {"display", "blob", "button"}

\* the blob is dragged at most MaxNavDrags times
MaxNavDrags == 2

\* animation frames between the pointer events
MaxNavFrames == 1

\* history of a gesture: where the pointer went down and where the display
\* saw it last
Gesture(downY, y) == [downY |-> downY, y |-> y]

\* mousedown or touchstart inside the display: the listener of the blob's
\* svg runs first, then the display's
PointerDown ==
  \E e \in StartPointers, target \in NavTargets, touch \in BOOLEAN :
    /\ target = "blob" => app.currentScreenIndex = 0 /\ events < MaxNavDrags
    /\ blob' = IF target = "blob" THEN handleDragStart(blob, e) ELSE blob
    /\ app' = IF touch THEN handleTouchStart(app, e, target = "button")
              ELSE App_handleDragStart(app, e)
    /\ events' = IF target = "blob" THEN events + 1 ELSE events
    /\ last' = Hist(IF touch THEN "touchstart" ELSE "mousedown",
                    IF app'.isDragging /\ (~touch \/ target # "button")
                    THEN Gesture(e.clientY, e.clientY) ELSE last.loc,
                    last.edgeR2, last.fresh)
    /\ UNCHANGED <<timers, frames, look, slider>>

\* mousemove or touchmove: the display's listener, then the blob's listener
\* on the document
PointerMoveTo(moves) ==
  \E e \in moves, touch \in BOOLEAN :
    /\ app' = IF touch THEN handleTouchMove(app, e)
              ELSE App_handleDragMove(app, e)
    /\ blob' = handleDragMove(blob, e)
    /\ last' = Hist(IF touch THEN "touchmove" ELSE "mousemove",
                    IF app.isDragging THEN Gesture(last.loc.downY, e.clientY)
                    ELSE last.loc,
                    last.edgeR2, last.fresh)
    /\ UNCHANGED <<timers, frames, events, look, slider>>

PointerMove == PointerMoveTo(NavMoves)

PointerMoveFar == PointerMoveTo(NavMoves \cup EdgeMoves)

\* mouseup or touchend: the display's listener, then the blob's listener on
\* the document, which starts the timer clearing wasDragged
PointerUp ==
  \E touch \in BOOLEAN :
    /\ app' = IF touch THEN handleTouchEnd(app, blob)
              ELSE App_handleDragEnd(app, blob)
    /\ blob' = handleDragEnd(blob)
    /\ timers' = IF blob.isDragging /\ blob.hasMoved THEN timers + 1
                 ELSE timers
    /\ last' = Hist(IF touch THEN "touchend" ELSE "mouseup", last.loc,
                    IF blob.isDragging /\ blob.hasMoved
                    THEN (IF blob'.edgeReturnStart = blob.time
                             /\ blob'.edgeReturnEasing
                             /\ Dist(blob.posX - centerX, blob.posY - centerY)
                                  > normalRadius
                          THEN BaseRadius2(blob') ELSE Undefined)
                    ELSE last.edgeR2,
                    last.fresh)
    /\ UNCHANGED <<frames, events, look, slider>>

\* mouseleave: the display's listener only
MouseLeave ==
  /\ app' = App_handleDragEnd(app, blob)
  /\ last' = Hist("mouseleave", last.loc, last.edgeR2, last.fresh)
  /\ UNCHANGED <<blob, timers, frames, events, look, slider>>

\* the setTimeout callback of the blob's handleDragEnd, during a gesture
GestureTimeout ==
  /\ timers > 0
  /\ timers' = timers - 1
  /\ blob' = [blob EXCEPT !.wasDragged = FALSE]
  /\ last' = Hist("timeout", last.loc, last.edgeR2, last.fresh)
  /\ UNCHANGED <<frames, events, look, slider, app>>

\* an animation frame between two gestures
GestureFrame ==
  /\ frames < MaxNavFrames
  /\ ~app.isDragging
  /\ blob' = animate(blob)
  /\ frames' = frames + 1
  /\ last' = Hist("animate", last.loc,
                  IF /\ ~blob.isDragging /\ ~blob.centerLock
                     /\ blob.edgeReturnEasing /\ last.edgeR2 # Undefined
                  THEN BaseRadius2(blob') ELSE last.edgeR2,
                  last.fresh)
  /\ UNCHANGED <<timers, events, look, slider, app>>

NextNav ==
  \/ PointerDown
  \/ PointerMove
  \/ PointerUp
  \/ MouseLeave
  \/ GestureTimeout

SpecNav == Init /\ [][NextNav]_vars

\* gestures with animation frames between them and with moves that take the
\* blob to the edge
NextRedrag ==
  \/ GestureFrame
  \/ PointerDown
  \/ PointerMoveFar
  \/ PointerUp
  \/ MouseLeave
  \/ GestureTimeout

SpecRedrag == Init /\ [][NextRedrag]_vars

TypeOK ==
  /\ blob.posX \in 0..One
  /\ blob.posY \in 0..One
  /\ timers \in 0..Max(MaxTimers, MaxNavDrags)

\* ------------------------------------------------------------------ claims
Radius2(x, y) == (x - centerX) * (x - centerX) + (y - centerY) * (y - centerY)

\* the step is one animate() frame
FrameStep == last'.op = "animate" /\ frames' = frames + 1

\* the step is a frame whose updatePosition passes both early returns
MovingFrame == FrameStep /\ ~blob.isDragging /\ ~blob.centerLock

\* C1: in every reachable state the position is within 0.48 of the center,
\* also right after a drag move aimed far outside the disk.
C1_PositionInDisk ==
  Radius2(blob.posX, blob.posY) <= maxRadius * maxRadius

\* a drag move has just been clamped onto the rim
C1_Witness ==
  /\ last.op = "handleDragMove"
  /\ blob.isDragging
  /\ Dist(blob.posX - centerX, blob.posY - centerY) >= maxRadius - 3

\* C2: whenever centerLock is true, after a frame the position is exactly
\* the center.
C2_LockedAtCenter ==
  (last.op = "animate" /\ blob.centerLock)
    => (blob.posX = centerX /\ blob.posY = centerY)

\* C3: a frame during a drag changes nothing but the clock, and during a
\* drag only a pointer move changes the position, to the clamped sum of the
\* drag-start position and the normalized pointer delta.
C3_DragSuspendsMotion ==
  [][/\ (FrameStep /\ blob.isDragging)
          => blob' = [blob EXCEPT !.time = blob.time + frameStep]
     /\ (blob.isDragging /\ <<blob'.posX, blob'.posY>> # <<blob.posX, blob.posY>>)
          => /\ last'.op = "handleDragMove"
             /\ \E e \in MovePointers :
                  LET rawX == blob.dragStartPosX
                              + Div((e.clientX - blob.dragStartX) * One, containerSize)
                      rawY == blob.dragStartPosY
                              + Div((e.clientY - blob.dragStartY) * One, containerSize)
                  IN /\ Radius2(blob'.posX, blob'.posY) <= maxRadius * maxRadius
                     /\ Radius2(rawX, rawY) <= maxRadius * maxRadius
                          => (blob'.posX = rawX /\ blob'.posY = rawY)
                     /\ Radius2(rawX, rawY) > maxRadius * maxRadius
                          => /\ Dist(blob'.posX - centerX, blob'.posY - centerY)
                                  >= maxRadius - 3
                             /\ Abs((blob'.posX - centerX) * (rawY - centerY)
                                    - (blob'.posY - centerY) * (rawX - centerX))
                                  <= Abs(rawX - centerX) + Abs(rawY - centerY)
    ]_vars

\* a frame has passed during a drag that moved the blob
C3_Witness ==
  /\ last.op = "animate"
  /\ blob.isDragging
  /\ blob.hasMoved
  /\ <<blob.posX, blob.posY>> # <<blob.dragStartPosX, blob.dragStartPosY>>

\* C4: a drag start received while locked (and not dragging) changes
\* nothing, and pointer moves and releases then change nothing either.
C4_NoDragWhileLocked ==
  [][(/\ blob.centerLock
      /\ ~blob.isDragging
      /\ last'.op \in {"handleDragStart", "handleDragMove", "handleDragEnd"})
       => (blob' = blob /\ timers' = timers)
    ]_vars

\* a drag start has just been ignored by the locked blob
C4_Witness ==
  /\ last.op = "handleDragStart"
  /\ blob.centerLock
  /\ ~blob.isDragging

\* v lies between a and b
Between(v, a, b) == (a <= v /\ v <= b) \/ (b <= v /\ v <= a)

\* the running edge return still has the release point of the latest release
ReleasePoint == [x |-> blob.edgeReturnStartX, y |-> blob.edgeReturnStartY]

\* C5: a moved drag released beyond 0.35 starts the edge return; every
\* following moving frame stores a base anchor on the segment from the
\* release point to the point at 0.35 in the same direction, never farther
\* from the center than the frame before, and the first frame at or past
\* 600 ms stores that point and clears edgeReturnEasing.
C5_EdgeReturn ==
  [][/\ (/\ last'.op = "handleDragEnd"
         /\ blob.isDragging
         /\ blob.hasMoved
         /\ Radius2(blob.posX, blob.posY) > normalRadius * normalRadius)
          => /\ blob'.edgeReturnEasing
             /\ blob'.edgeReturnStart = blob.time
             /\ <<blob'.edgeReturnStartX, blob'.edgeReturnStartY>>
                  = <<blob.posX, blob.posY>>
             /\ <<blob'.dragEndPosX, blob'.dragEndPosY>>
                  = <<blob.posX, blob.posY>>
     /\ (MovingFrame /\ blob.edgeReturnEasing)
          => LET start == ReleasePoint
                 goal == EdgeTarget(start.x, start.y)
                 elapsed == blob'.time - blob.edgeReturnStart
             IN /\ Radius2(goal.x, goal.y) <= normalRadius * normalRadius
                /\ Dist(goal.x - centerX, goal.y - centerY) >= normalRadius - 3
                /\ Between(blob'.dragEndPosX, start.x, goal.x)
                /\ Between(blob'.dragEndPosY, start.y, goal.y)
                /\ Abs((blob'.dragEndPosX - start.x) * (goal.y - start.y)
                       - (blob'.dragEndPosY - start.y) * (goal.x - start.x))
                     <= Abs(goal.x - start.x) + Abs(goal.y - start.y)
                /\ last.edgeR2 # Undefined => BaseRadius2(blob') <= last.edgeR2
                /\ elapsed >= edgeReturnDuration
                     => /\ blob'.dragEndPosX = goal.x
                        /\ blob'.dragEndPosY = goal.y
                        /\ ~blob'.edgeReturnEasing
                /\ elapsed < edgeReturnDuration => blob'.edgeReturnEasing
    ]_vars

\* an edge return has run from its release to its completion
C5_Witness ==
  /\ last.op = "animate"
  /\ last.loc.edgeEasing
  /\ last.edgeR2 # Undefined
  /\ ~blob.edgeReturnEasing
  /\ blob.time - blob.edgeReturnStart >= edgeReturnDuration
  /\ <<blob.dragEndPosX, blob.dragEndPosY>>
       = <<EdgeTarget(blob.edgeReturnStartX, blob.edgeReturnStartY).x,
           EdgeTarget(blob.edgeReturnStartX, blob.edgeReturnStartY).y>>

\* the release of the scenario: at radius 0.9 x 0.48 = 0.432
ScenarioRelease ==
  /\ last.edgeR2 # Undefined
  /\ Dist(blob.edgeReturnStartX - centerX, blob.edgeReturnStartY - centerY)
       \in (4320 - 20)..(4320 + 20)

\* what is left of a squared radius beyond the comfortable radius
Excess2(r2) ==
  IF r2 > normalRadius * normalRadius THEN r2 - normalRadius * normalRadius ELSE 0

\* C6 as stated: after a release at radius 0.432 the excess radius of the
\* POSITION over 0.35 decreases frame by frame during the edge return, and
\* the position is within 0.35 once 600 ms have elapsed.
C6_PositionReturns ==
  [][(MovingFrame /\ blob.edgeReturnEasing /\ ScenarioRelease
      /\ ~blob.centerLockEaseOut)
       => /\ last.op = "animate"
               => Excess2(Radius2(blob'.posX, blob'.posY))
                    <= Excess2(Radius2(blob.posX, blob.posY))
          /\ blob'.time - blob.edgeReturnStart >= edgeReturnDuration
               => Radius2(blob'.posX, blob'.posY) <= normalRadius * normalRadius
    ]_vars

\* C6 amended: after a release at radius 0.432 the edge return is running,
\* the excess radius of the BASE ANCHOR over 0.35 never grows from frame to
\* frame, and the base anchor is within 0.35 once 600 ms have elapsed.
C6_BaseReturns ==
  [][/\ (/\ last'.op = "handleDragEnd"
         /\ blob.isDragging
         /\ blob.hasMoved
         /\ Dist(blob.posX - centerX, blob.posY - centerY)
              \in (4320 - 20)..(4320 + 20))
          => (blob'.edgeReturnEasing /\ last'.edgeR2 # Undefined)
     /\ (MovingFrame /\ blob.edgeReturnEasing /\ ScenarioRelease)
          => /\ Excess2(BaseRadius2(blob')) <= Excess2(last.edgeR2)
             /\ blob'.time - blob.edgeReturnStart >= edgeReturnDuration
                  => Excess2(BaseRadius2(blob')) = 0
    ]_vars

\* the scenario has run to the end of its edge return
C6_Witness ==
  /\ last.op = "animate"
  /\ last.loc.edgeEasing
  /\ ScenarioRelease
  /\ ~blob.edgeReturnEasing
  /\ BaseRadius2(blob) <= normalRadius * normalRadius

\* C7: a moving frame at or past the duration stores exactly the completion
\* value and clears the easing flag, and no interpolation factor of a running
\* easing exceeds 1.
C7_JumpToCompletion ==
  [][MovingFrame
       => /\ (/\ blob.edgeReturnEasing
              /\ blob'.time - blob.edgeReturnStart >= edgeReturnDuration)
               => /\ <<blob'.dragEndPosX, blob'.dragEndPosY>>
                       = <<EdgeTarget(blob.edgeReturnStartX, blob.edgeReturnStartY).x,
                           EdgeTarget(blob.edgeReturnStartX, blob.edgeReturnStartY).y>>
                  /\ ~blob'.edgeReturnEasing
          /\ (/\ blob.centerLockEaseOut
              /\ blob'.time - blob.centerLockEaseStart >= centerLockEaseDuration)
               => /\ <<blob'.posX, blob'.posY>>
                       = <<last'.loc.targetX, last'.loc.targetY>>
                  /\ ~blob'.centerLockEaseOut
          /\ blob.edgeReturnEasing
               => (last'.loc.edgeT \in 0..One /\ last'.loc.edgeEaseT \in 0..One)
          /\ blob.centerLockEaseOut
               => (last'.loc.lockT \in 0..One /\ last'.loc.lockEaseT \in 0..One)
    ]_vars

\* a frame arriving more than two frames late has completed the ease-out
C7_Witness ==
  /\ last.op = "animate"
  /\ last.loc.lockEasing
  /\ ~blob.centerLockEaseOut
  /\ blob.time - blob.centerLockEaseStart > centerLockEaseDuration + 2 * frameStep
  /\ <<blob.posX, blob.posY>> = <<last.loc.targetX, last.loc.targetY>>

\* C8: unlockFromCenter enters the ease-out; every moving frame of the
\* ease-out puts the position at center + (target - center) * easeT with
\* easeT = 1 - (1 - t)^3 and t = min(1, elapsed / 800); frames keep coming,
\* so without a drag the ease-out ends, and a moving frame outside the
\* ease-out puts the position on the free-motion target.
C8_EaseFromCenter ==
  /\ [][/\ last'.op = "unlockFromCenter"
             => /\ ~blob'.centerLock
                /\ blob'.centerLockEaseOut
                /\ blob'.centerLockEaseStart = blob.time
        /\ (MovingFrame /\ blob.centerLockEaseOut)
             => LET elapsed == blob'.time - blob.centerLockEaseStart
                    t == IF elapsed >= centerLockEaseDuration THEN One
                         ELSE Div(elapsed * One, centerLockEaseDuration)
                    easeT == One - Div(Div((One - t) * (One - t), One) * (One - t), One)
                IN /\ blob'.posX
                        = centerX + Div((last'.loc.targetX - centerX) * easeT, One)
                   /\ blob'.posY
                        = centerY + Div((last'.loc.targetY - centerY) * easeT, One)
        /\ (MovingFrame /\ ~blob.centerLockEaseOut)
             => <<blob'.posX, blob'.posY>> = <<last'.loc.targetX, last'.loc.targetY>>
       ]_vars
  /\ [](blob.centerLockEaseOut => <>(~blob.centerLockEaseOut \/ blob.isDragging))

\* an ease-out has run frame by frame to its end
C8_Witness ==
  /\ last.op = "animate"
  /\ last.loc.lockEasing
  /\ last.loc.lockT = One
  /\ last.fresh
  /\ ~blob.centerLockEaseOut
  /\ ~blob.centerLock
  /\ blob.time - blob.centerLockEaseStart = centerLockEaseDuration

\* C9: unlockFromCenter sets the phase offset to the unlock time, and from
\* then until the next drag release every moving frame uses the center as
\* its base anchor.
C9_FreshAfterUnlock ==
  [][/\ last'.op = "unlockFromCenter"
          => blob'.oscillationPhaseOffset = blob.time
     /\ (MovingFrame /\ last.fresh)
          => (last'.loc.baseX = centerX /\ last'.loc.baseY = centerY)
    ]_vars

\* C10: in free motion, on a frame whose base anchor is farther than 0.2
\* from the center, the displacement direction x oscillation does not point
\* outward.
C10_NeverOutward ==
  (/\ last.op = "animate"
   /\ last.loc.ran
   /\ ~last.loc.lockEasing
   /\ Radius2(last.loc.baseX, last.loc.baseY) > returnThreshold * returnThreshold)
    => Mul(last.loc.dirX, last.loc.oscillation) * (last.loc.baseX - centerX)
       + Mul(last.loc.dirY, last.loc.oscillation) * (last.loc.baseY - centerY)
         <= 0

\* C11: the outline of every frame, in every lock state, is one move-to,
\* four cubic segments and a close command, and the last cubic segment
\* ends at the point of the move-to.
C11_ClosedPath ==
  /\ Len(look.path) = 6
  /\ look.path[1].cmd = "M"
  /\ \A i \in 2..5 : look.path[i].cmd = "C" /\ Len(look.path[i].args) = 6
  /\ look.path[6].cmd = "Z"
  /\ look.path[5].args[5] = look.path[1].args[1]
  /\ look.path[5].args[6] = look.path[1].args[2]

\* an outline generated while the lock eases out, with four different
\* anchor points
C11_Witness ==
  /\ last.op = "animate"
  /\ blob.centerLockEaseOut
  /\ \A i, j \in 2..5 :
       i # j => <<look.path[i].args[5], look.path[i].args[6]>>
                  # <<look.path[j].args[5], look.path[j].args[6]>>

\* the largest difference between two colors in one channel
ChannelGap(color1, color2) ==
  LET c1 == Rgb(color1)
      c2 == Rgb(color2)
  IN Max(Abs(c1[1] - c2[1]), Max(Abs(c1[2] - c2[2]), Abs(c1[3] - c2[3])))

\* the blend bands of the blob's mapper, with the zone colors below and above
BlobBlendBands ==
  {[lo |-> Tenths(37), hi |-> Tenths(40),
    below |-> COLORS.DANGER, above |-> COLORS.WARNING],
   [lo |-> Tenths(45), hi |-> Tenths(48),
    below |-> COLORS.WARNING, above |-> COLORS.SAFE],
   [lo |-> Tenths(87), hi |-> Tenths(90),
    below |-> COLORS.SAFE, above |-> COLORS.WARNING],
   [lo |-> Tenths(100), hi |-> Tenths(103),
    below |-> COLORS.WARNING, above |-> COLORS.DANGER]}

\* blend fractions, in steps of 0.0002
BlendFractions == {2 * k : k \in 0..(One \div 2)}

\* the color is an interpolation of the band's two zone colors
C12_Interpolated(band, color) ==
  \E t \in BlendFractions :
    Rgb(color) = Rgb(blendColors(band.below, band.above, t))

\* the color at an edge of the band is the zone color on that side
C12_Edges(band, glucose, color) ==
  /\ glucose = band.lo => Rgb(color) = Rgb(band.below)
  /\ glucose = band.hi => Rgb(color) = Rgb(band.above)

\* C12: for a value inside a blend band the blob's color is an interpolation
\* of the two adjacent zone colors with a fraction in [0, 1] that is
\* monotonic in the value, and at the two edges of the band it is the
\* unblended color of the zone on that side.
C12_BlendBands ==
  [][\A band \in BlobBlendBands :
       LET g == look'.glucoseValue
       IN (band.lo <= g /\ g <= band.hi)
            => /\ C12_Interpolated(band, look'.currentColor)
               /\ C12_Edges(band, g, look'.currentColor)
               /\ (band.lo <= look.glucoseValue /\ look.glucoseValue <= g)
                    => ChannelGap(look.currentColor, band.below)
                         <= ChannelGap(look'.currentColor, band.below)
    ]_vars

\* C13: the color does not jump: for the blob's value and for the y of the
\* graph cursor, the color one step (0.0001 of a glucose unit, 0.01 of a
\* graph unit) below and above differs from the color at the value by at
\* most one count in every channel.
C13_Continuous ==
  \A d \in {-1, 1} :
    /\ ChannelGap(getColorForGlucose(look.glucoseValue + d),
                  look.currentColor) <= 1
    /\ ChannelGap(getColorForY(slider.dotY + d),
                  getColorForY(slider.dotY)) <= 1

\* C14: after every setGlucose the color is DANGER for a value below
\* MIN_VALUE or above MAX_VALUE, the scale lies in [0.3, 1.8], is 0.3 for
\* every value <= 2.0 and 1.8 for every value >= 15.0, and a larger value
\* never gets a smaller scale.
C14_Saturates ==
  [][LET g == look'.glucoseValue
         R == GLUCOSE_RANGES
     IN /\ (g < R.MIN_VALUE \/ g > R.MAX_VALUE)
             => Rgb(look'.currentColor) = Rgb(COLORS.DANGER)
        /\ Tenths(3) <= look'.currentScale /\ look'.currentScale <= Tenths(18)
        /\ g <= R.MIN_VALUE => look'.currentScale = Tenths(3)
        /\ g >= R.MAX_VALUE => look'.currentScale = Tenths(18)
        /\ look.glucoseValue <= g => look.currentScale <= look'.currentScale
    ]_vars

\* setGlucose was called with a value above MAX_VALUE and the scale
\* saturated
C14_Witness ==
  /\ last.op = "setGlucose"
  /\ look.glucoseValue > GLUCOSE_RANGES.MAX_VALUE
  /\ look.currentScale = Tenths(18)
  /\ Rgb(look.currentColor) = Rgb(COLORS.DANGER)

\* the three unblended colors
ZoneColors == {Rgb(COLORS.SAFE), Rgb(COLORS.WARNING), Rgb(COLORS.DANGER)}

\* C15: the graph's mapper gives the same color in both domains: the color
\* of the y a value maps to is the color of the value, and the color of the
\* glucose a y maps to is the color of the y.
C15_SameInBothDomains ==
  /\ slider.value # Undefined
       => Rgb(getColorForY(slider.targetY))
            = Rgb(GraphSlider_getColorForGlucose(slider.value))
  /\ Rgb(slider.glucoseColor) = Rgb(getColorForY(slider.dotY))
  /\ Abs(slider.currentX - maxX) >= 5 * Px
       => Rgb(slider.glucoseColor) = Rgb(slider.segmentColor)

\* the cursor was dragged to a historical position of a curve generated for
\* a value, where both colors are a blend
C15_Witness ==
  /\ slider.value # Undefined
  /\ Rgb(GraphSlider_getColorForGlucose(slider.value)) \notin ZoneColors
  /\ Abs(slider.currentX - maxX) >= 5 * Px
  /\ Rgb(slider.segmentColor) \notin ZoneColors
  /\ Rgb(slider.glucoseColor) \notin ZoneColors

\* C16: the graph's color for a glucose value is the blob's color for the
\* same value: for the value the blob was given, and whenever the cursor
\* reads the value the blob has, the color of the glucose text is the
\* blob's color.
C16_MatchesBlob ==
  /\ Rgb(GraphSlider_getColorForGlucose(look.glucoseValue))
       = Rgb(look.currentColor)
  /\ slider.glucose = look.glucoseValue
       => Rgb(slider.glucoseColor) = Rgb(look.currentColor)

\* C17: glucoseToY and yToGlucose are inverse to each other: mapping the
\* glucose read at the dot back gives the dot's y, mapping the y of a value
\* back gives the value, and the values 10, 9, 4.5 and 4 map to the
\* boundaries 96, 106, 151 and 156.
C17_InverseMaps ==
  /\ glucoseToY(slider.glucose) = slider.dotY
  /\ slider.value # Undefined
       => /\ yToGlucose(slider.targetY) = slider.value
          /\ slider.value = Tenths(100) => slider.targetY = DANGER_HIGH_Y
          /\ slider.value = Tenths(90) => slider.targetY = WARNING_HIGH_Y
          /\ slider.value = Tenths(45) => slider.targetY = WARNING_LOW_Y
          /\ slider.value = Tenths(40) => slider.targetY = DANGER_LOW_Y

\* a curve was generated for 4.5 and the cursor dragged to a point of it
\* whose y is not a whole number
C17_Witness ==
  /\ slider.value = Tenths(45)
  /\ slider.targetY = WARNING_LOW_Y
  /\ slider.dotY % Px # 0
  /\ slider.glucose = yToGlucose(slider.dotY)

\* (x, y) lies on the chord from sample a to sample b, up to the rounding of
\* the fixed-point arithmetic
OnChord(a, b, x, y) ==
  Abs((y - a.y) * (b.x - a.x) - (b.y - a.y) * (x - a.x))
    <= (b.x - a.x) * (2 + Abs(b.y - a.y) \div One)

\* the dot is on the chord of every pair of consecutive samples around x
C18_Between ==
  \A i \in 1..(Len(slider.pathSamples) - 1) :
    LET a == slider.pathSamples[i]
        b == slider.pathSamples[i + 1]
    IN (a.x <= slider.currentX /\ slider.currentX <= b.x)
         => OnChord(a, b, slider.currentX, slider.dotY)

\* left or right of all samples the dot has the y of the nearest sample
C18_Outside ==
  LET first == slider.pathSamples[1]
      final == slider.pathSamples[Len(slider.pathSamples)]
  IN /\ slider.currentX < first.x => slider.dotY = first.y
     /\ slider.currentX > final.x => slider.dotY = final.y

\* C18: the y of the dot is the linear interpolation of the two samples
\* around its x, and for an x below the smallest or above the largest
\* sample x it is the y of the nearest boundary sample, never an
\* extrapolated value.
C18_Interpolates == C18_Between /\ C18_Outside

\* C19: after every findBoundaryCrossings/buildSegments pass the segments
\* tile [minX, maxX]: the first starts at minX, the last ends at maxX, each
\* ends where the next starts, and none ends before it starts.
C19_SegmentsTile ==
  LET segments == slider.segments
      n == Len(segments)
  IN /\ n >= 1
     /\ segments[1].startX = minX
     /\ segments[n].endX = maxX
     /\ \A k \in 1..(n - 1) : segments[k].endX = segments[k + 1].startX
     /\ \A k \in 1..n : segments[k].startX <= segments[k].endX

\* the segments of a generated curve that touches a boundary at a sample:
\* two crossings at the same x, an empty segment between them
C19_Witness ==
  /\ slider.value # Undefined
  /\ Len(slider.segments) >= 4
  /\ \E k \in 2..(Len(slider.segments) - 1) :
       /\ slider.segments[k].startX = slider.segments[k].endX
       /\ slider.boundaryCrossings[k].boundary
            = slider.boundaryCrossings[k - 1].boundary

\* the zone whose band the clip rectangle covers
ClipZone(clipY) ==
  IF clipY = 0 THEN "danger-high"
  ELSE IF clipY = DANGER_HIGH_Y THEN "warning-high"
  ELSE IF clipY = WARNING_HIGH_Y THEN "safe"
  ELSE IF clipY = WARNING_LOW_Y THEN "warning-low"
  ELSE "danger-low"

\* the zone is the one the clip band and the color of y stand for: the band
\* is the zone's, the color is SAFE exactly in the safe zone and DANGER in
\* the danger zones
C20_Agrees(zone, y) ==
  /\ ClipZone(ClipBand(y).clipY) = zone
  /\ (zone = "safe") <=> (Rgb(getColorForY(y)) = Rgb(COLORS.SAFE))
  /\ zone \in {"danger-high", "danger-low"}
       => Rgb(getColorForY(y)) = Rgb(COLORS.DANGER)

\* the y of the curve at the middle of segment k
C20_MidY(k) ==
  getYForX(slider.pathSamples,
           Div(slider.segments[k].startX + slider.segments[k].endX, 2))

\* C20: the zone stored in each segment is the zone of the curve's y at the
\* middle of the segment, and the zone of a y (at the middle of a segment,
\* at the dot) agrees with the color and with the clip band chosen for that
\* y, also when y is 96, 106, 151 or 156.
C20_ZonesAgree ==
  /\ \A k \in 1..Len(slider.segments) :
       /\ slider.segments[k].zone = getZoneNameForY(C20_MidY(k))
       /\ C20_Agrees(slider.segments[k].zone, C20_MidY(k))
  /\ ClipZone(slider.clip.y) = getZoneNameForY(slider.dotY)
  /\ C20_Agrees(getZoneNameForY(slider.dotY), slider.dotY)

\* the samples i .. j pass through the boundary value b: i and j lie
\* strictly on different sides and every sample between them has y = b
PassThrough(pathSamples, b, i, j) ==
  /\ i + 1 < j
  /\ \A m \in (i + 1)..(j - 1) : pathSamples[m].y = b
  /\ \/ (pathSamples[i].y < b /\ pathSamples[j].y > b)
     \/ (pathSamples[i].y > b /\ pathSamples[j].y < b)

\* C21: every pass of the sampled curve through a boundary value at samples
\* lying exactly on it is recorded as exactly one crossing of that boundary;
\* every crossing lies between the x of two consecutive samples whose y
\* lie around the boundary value; the crossings are sorted by x.
C21_OneCrossingPerPass ==
  LET ps == slider.pathSamples
      cs == slider.boundaryCrossings
  IN /\ \A b \in 1..Len(Boundaries), i, j \in 1..Len(ps) :
          PassThrough(ps, Boundaries[b].y, i, j)
            => Cardinality({k \in 1..Len(cs) :
                              /\ cs[k].boundary = Boundaries[b].name
                              /\ ps[i].x <= cs[k].x
                              /\ cs[k].x <= ps[j].x}) = 1
     /\ \A k \in 1..Len(cs) :
          \E i \in 2..Len(ps) :
            /\ ps[i - 1].x <= cs[k].x /\ cs[k].x <= ps[i].x
            /\ Between(cs[k].y, ps[i - 1].y, ps[i].y)
     /\ \A k \in 1..(Len(cs) - 1) : cs[k].x <= cs[k + 1].x

\* a curve that passes through 156 at two consecutive samples
C21_Witness ==
  /\ \E i \in 1..(Len(slider.pathSamples) - 3) :
       /\ PassThrough(slider.pathSamples, DANGER_LOW_Y, i, i + 3)
       /\ slider.pathSamples[i + 1].x < slider.pathSamples[i + 2].x
  /\ \E k \in 1..Len(slider.boundaryCrossings) :
       slider.boundaryCrossings[k].boundary = "danger-low"

\* the tables and what the render read from them all derive from the
\* stored path
C22_Fresh(s) ==
  /\ s.pathSamples = samplePath(s.originalPathData)
  /\ s.boundaryCrossings = findBoundaryCrossings(s.pathSamples)
  /\ s.segments = buildSegments(s.pathSamples, s.boundaryCrossings)
  /\ s.dotY = getYForX(s.pathSamples, s.currentX)
  /\ s.glucose = yToGlucose(s.dotY)
  /\ s.clip.x = Floor(getSegmentForX(s.segments, s.currentX).startX) - 2 * Px
  /\ s.clip.x + s.clip.width
       = Ceil(getSegmentForX(s.segments, s.currentX).endX) + 3 * Px

\* C22: after every step, in particular after every updateGraphPath, the
\* samples are those of the stored path, the crossings those of the samples,
\* the segments those of the crossings, and the dot and the clip rectangle
\* were rendered from these tables; a change of the path leaves currentX
\* unchanged.
C22_FullRefresh ==
  [][/\ C22_Fresh(slider')
     /\ slider'.originalPathData # slider.originalPathData
          => slider'.currentX = slider.currentX
    ]_vars

\* the path was replaced by a generated one while the cursor was at a
\* historical position, and the clip rectangle is not the one of the curve
\* of the page
C22_Witness ==
  /\ slider.value # Undefined
  /\ slider.originalPathData # OriginalCurve
  /\ slider.currentX = 100 * Px
  /\ slider.clip.x
       # Floor(getSegmentForX(ConstructedSlider.segments,
                              slider.currentX).startX) - 2 * Px

\* all samples of the table are the same point
ZeroLength(pathSamples) ==
  \A i \in 1..Len(pathSamples) : pathSamples[i] = pathSamples[1]

\* C23: a path of length zero is rejected by the sampler: the slider never
\* holds a sample table whose samples all coincide, with crossings and
\* segments built for it.
C23_ZeroLengthRejected ==
  ~(/\ ZeroLength(slider.pathSamples)
    /\ slider.boundaryCrossings = findBoundaryCrossings(slider.pathSamples)
    /\ slider.segments = buildSegments(slider.pathSamples,
                                       slider.boundaryCrossings))


\* every whole x of the graph, from minX to maxX
SlopeProbes == {k * Px : k \in (minX \div Px)..(maxX \div Px)}

GestureEnd == app.isDragging /\ ~app'.isDragging

\* the step is a release of the pointer: mouseup or touchend
Release == last'.op \in {"mouseup", "touchend"}

\* upward travel of the gesture, from where the pointer went down to where
\* the display saw it last
Travel == last.loc.downY - last.loc.y

\* the screen the step leaves the app on, n screens further
ScreenMoves(n) ==
  app'.currentScreenIndex =
    Max(0, Min(Len(screens) - 1, app.currentScreenIndex + n))

C26_LeaveCancels ==
  [][(last'.op = "mouseleave" \/ (last.op = "mouseleave" /\ Release))
       => ScreenMoves(0)]_vars


\* C27: every segment is same-zone: for every segment of buildSegments and
\* every sample whose x lies strictly between its startX and endX, the zone
\* of the curve's y at that x is the segment's zone, also on curves with
\* consecutive samples lying exactly on a boundary value.
C27_SameZone ==
  \A k \in 1..Len(slider.segments), i \in 1..Len(slider.pathSamples) :
    LET x == slider.pathSamples[i].x
    IN (slider.segments[k].startX < x /\ x < slider.segments[k].endX)
         => getZoneNameForY(getYForX(slider.pathSamples, x))
              = slider.segments[k].zone


\* the step is a release of a drag of the blob that moved
MovedRelease == blob.isDragging /\ blob.hasMoved /\ ~blob'.isDragging

\* the last release, lock or unlock was the release of a moved drag at most
\* normalRadius from the center
InnerReleaseLast ==
  /\ blob.dragEndPosX # Undefined
  /\ last.edgeR2 = Undefined
  /\ ~blob.centerLock /\ ~blob.centerLockEaseOut

\* C28: a moved drag released at most 0.35 from the center makes the release
\* position the base anchor, and the base anchor of every following tick is
\* that position, until the next release, lock or unlock, whatever happened
\* before the drag, an edge-return easing still pending included.
C28_ReleaseIsAnchor ==
  [][/\ (MovedRelease
         /\ Dist(blob.posX - centerX, blob.posY - centerY) <= normalRadius)
          => /\ blob'.dragEndPosX = blob.posX
             /\ blob'.dragEndPosY = blob.posY
     /\ (frames' = frames + 1 /\ InnerReleaseLast /\ ~blob.isDragging)
          => /\ FrameLocals(blob).baseX = blob.dragEndPosX
             /\ FrameLocals(blob).baseY = blob.dragEndPosY
             /\ blob'.dragEndPosX = blob.dragEndPosX
             /\ blob'.dragEndPosY = blob.dragEndPosY]_vars


\* wasRecentlyDragged()
wasRecentlyDragged(b) == b.wasDragged

\* C29: from the release of a drag that moved more than 5 px until its own
\* 100 ms delay has elapsed, wasRecentlyDragged() returns true, for any
\* sequence of drags.  The timers run out in the order they were started, so
\* the timer of the latest such release is pending as long as any is.
C29_RecentlyDragged == timers > 0 => wasRecentlyDragged(blob)


\* the step runs handleDragEnd or handleTouchEnd
EndListener == last'.op \in {"mouseup", "mouseleave", "touchend"}

\* C30: a gesture that ends while the blob is being dragged changes no page:
\* when glucoseBlob.isDragging is true, handleDragEnd and handleTouchEnd
\* leave the screen as it is, whatever the vertical travel, and the app's
\* own isDragging flag is cleared.
C30_NoPageChangeDuringBlobDrag ==
  [][(EndListener /\ blob.isDragging)
       => ScreenMoves(0) /\ ~app'.isDragging]_vars

\* a touch that dragged the blob 50 px upward has ended on the home screen
C30_Witness ==
  /\ last.op = "touchend"
  /\ "downY" \in DOMAIN last.loc
  /\ last.loc.downY - last.loc.y = 50
  /\ events = 1
  /\ blob.wasDragged /\ ~blob.isDragging
  /\ blob.dragEndPosY = blob.posY
  /\ ~app.isDragging
  /\ app.currentScreenIndex = 0


\* ------------------------------------------------------------- graph view
\* calls of toggleGraphView and resetToHomeView in one run
MaxViewCalls == 3

\* GraphSlider.reset(): the dot is rendered at maxX and the clip is set from
\* the last segment
reset(s) ==
  LET r == renderDotAtX([s EXCEPT !.currentX = maxX], maxX)
      lastSegment == r.segments[Len(r.segments)]
      y == getYForX(r.pathSamples, maxX)
  IN IF Len(r.segments) > 0
     THEN [r EXCEPT !.clip = [x |-> Floor(lastSegment.startX) - 2 * Px,
                              y |-> ClipBand(y).clipY,
                              width |-> (Ceil(lastSegment.endX) + 3 * Px)
                                        - (Floor(lastSegment.startX) - 2 * Px),
                              height |-> ClipBand(y).clipHeight]]
     ELSE r

\* GraphSlider.updateSliderPosition(x): the dot ends rendered at x
updateSliderPosition(s, x) == renderDotAtX(s, x)

\* the call is not refused by the guard at the head of toggleGraphView
Accepted(a) == "graph" \in a.present /\ ~a.isAnimating

\* toggleGraphView() past its guard: the module variables, the two elements
\* and the callbacks it leaves pending; every timeout has the delay
\* DURATION_LONG, so the timeouts fire in the order of their registration
Transition(a) ==
  LET t == [a EXCEPT !.isAnimating = TRUE,
                     !.isGraphVisible = ~a.isGraphVisible]
  IN IF t.isGraphVisible
     THEN IF "blobContainer" \notin t.present THEN t
          ELSE IF "animateBlobSquish" \in t.present
          THEN [t EXCEPT !.pending.squish = @ + 1]
          ELSE [t EXCEPT !.blobContainer.fadeOut = TRUE,
                         !.graph.hidden = FALSE,
                         !.pending.frames = Append(@, "graphVisible"),
                         !.pending.timeouts = Append(@, "showEndFallback")]
     ELSE [t EXCEPT !.graph.visible = FALSE,
                    !.pending.timeouts = Append(@, "hideMid")]

\* faulty variant: a call during an animation is accepted too
toggleGraphView_Reentrant(a) ==
  IF "graph" \notin a.present THEN a ELSE Transition(a)

toggleGraphView(a) == IF ~Accepted(a) THEN a ELSE Transition(a)

\* the callback handed to animateBlobSquish
squishCallback(a) ==
  [a EXCEPT !.pending.squish = @ - 1,
            !.blobContainer.fadeOut = TRUE,
            !.graph.hidden = FALSE,
            !.pending.frames = Append(@, "graphVisible"),
            !.pending.timeouts = Append(@, "showEnd")]

\* the requestAnimationFrame callbacks of toggleGraphView
frameCallback(a, callback) ==
  IF callback = "graphVisible" THEN [a EXCEPT !.graph.visible = TRUE]
  ELSE [a EXCEPT !.blobContainer.transition = "opacity",
                 !.blobContainer.opacity = "1"]

\* the setTimeout callbacks of toggleGraphView
timeoutCallback(a, callback) ==
  IF callback \in {"showEnd", "showEndFallback"}
  THEN [a EXCEPT !.blobContainer.display = "none",
                 !.blobContainer.fadeOut = FALSE,
                 !.isAnimating = FALSE]
  ELSE IF callback = "hideMid"
  THEN IF "blobContainer" \in a.present
       THEN [a EXCEPT !.graph.hidden = TRUE,
                      !.blobContainer.display = "",
                      !.blobContainer.opacity = "0",
                      !.pending.frames = Append(@, "blobOpacity"),
                      !.pending.timeouts = Append(@, "hideEnd")]
       ELSE [a EXCEPT !.graph.hidden = TRUE]
  ELSE [a EXCEPT !.blobContainer.transition = "",
                 !.isAnimating = FALSE]

\* resetToHomeView() without its slider.reset()
resetToHomeView(a) ==
  LET g == IF "graph" \in a.present
           THEN [a EXCEPT !.graph.visible = FALSE, !.graph.hidden = TRUE]
           ELSE a
      b == IF "blobContainer" \in g.present
           THEN [g EXCEPT !.blobContainer.display = "",
                          !.blobContainer.fadeOut = FALSE]
           ELSE g
  IN [b EXCEPT !.isGraphVisible = FALSE, !.isAnimating = FALSE]

\* the callbacks that are pending
Pending(a) ==
  a.pending.squish + Len(a.pending.frames) + Len(a.pending.timeouts)

\* the record of the last handler: the function it called, whether the
\* call was accepted, and whether resetToHomeView was the last of the two
\* functions to change the view
View(called, accepted, home) ==
  [called |-> called, accepted |-> accepted, home |-> home]

Home == "home" \in DOMAIN last.loc /\ last.loc.home

\* timers counts the pending callbacks and frames the callbacks that ran
CallbackRuns == timers > 0 /\ frames' = frames + 1 /\ timers' = Pending(app')

\* a call of toggleGraphView() from the listener op
CallToggleGraphView(op) ==
  /\ events < MaxViewCalls
  /\ events' = events + 1
  /\ app' = toggleGraphView(app)
  /\ look' = IF Accepted(app) /\ app.isGraphVisible
                /\ "blobContainer" \in app.present
             THEN setGlucose(look, look.glucoseValue)
             ELSE look
  /\ last' = Hist(op, View("toggleGraphView", Accepted(app),
                           Home /\ ~Accepted(app)),
                  last.edgeR2, last.fresh)
  /\ timers' = Pending(app')
  /\ UNCHANGED <<blob, frames, slider>>

\* the click listener of the blob element
BlobClick ==
  /\ "blobContainer" \in app.present
  /\ app.blobContainer.display # "none"
  /\ ~wasRecentlyDragged(blob)
  /\ CallToggleGraphView("click")

\* the click listener of the first page dot
FirstDotClick ==
  /\ app.isGraphVisible
  /\ CallToggleGraphView("dotclick")

\* a call of toggleGraphView() by another caller
ToggleGraphView == CallToggleGraphView("toggleGraphView")

\* a call of window.resetToHomeView()
ResetToHomeView ==
  /\ events < MaxViewCalls
  /\ events' = events + 1
  /\ slider' = reset(slider)
  /\ app' = updateTrendFromAngle(resetToHomeView(app),
                                 getSlopeAngleAtX(slider'.pathSamples,
                                                  slider'.currentX))
  /\ blob' = setTrendDirection(blob, app'.currentTrendAngle)
  /\ last' = Hist("resetToHomeView", View("resetToHomeView", FALSE, TRUE),
                  last.edgeR2, last.fresh)
  /\ UNCHANGED <<timers, frames, look>>

\* the squish animation ends and calls back
SquishDone ==
  /\ app.pending.squish > 0
  /\ app' = squishCallback(app)
  /\ last' = Hist("squishCallback", View("", FALSE, Home),
                  last.edgeR2, last.fresh)
  /\ CallbackRuns
  /\ UNCHANGED <<blob, events, look, slider>>

\* the browser runs the oldest animation frame callback
ViewFrame ==
  /\ app.pending.frames # <<>>
  /\ app' = [frameCallback(app, Head(app.pending.frames))
              EXCEPT !.pending.frames = Tail(@)]
  /\ last' = Hist("frameCallback", View("", FALSE, Home),
                  last.edgeR2, last.fresh)
  /\ CallbackRuns
  /\ UNCHANGED <<blob, events, look, slider>>

\* the oldest timeout of toggleGraphView fires; showEnd and hideMid end with
\* a render of the slider, which hands the slope angle to the trend
ViewTimeout ==
  /\ app.pending.timeouts # <<>>
  /\ LET callback == Head(app.pending.timeouts)
         a == [timeoutCallback(app, callback)
                EXCEPT !.pending.timeouts = Tail(@)]
         s == IF callback = "showEnd"
              THEN updateSliderPosition(slider, slider.currentX)
              ELSE IF callback = "hideMid" THEN reset(slider)
              ELSE slider
     IN /\ slider' = s
        /\ IF callback \in {"showEnd", "hideMid"}
           THEN /\ app' = updateTrendFromAngle(
                            a, getSlopeAngleAtX(s.pathSamples, s.currentX))
                /\ blob' = setTrendDirection(blob, app'.currentTrendAngle)
           ELSE app' = a /\ blob' = blob
  /\ last' = Hist("timeoutCallback", View("", FALSE, Home),
                  last.edgeR2, last.fresh)
  /\ CallbackRuns
  /\ UNCHANGED <<events, look>>

\* the page with the parts it has
InitView ==
  \E seed \in TimeSeeds, signs \in NoiseTables, randomTrendIndex \in 0..4,
     present \in SUBSET PageParts :
    /\ look = ConstructedLook(Constructed(seed, signs), InitialPathNoise)
    /\ slider = ConstructedSlider
    /\ app = [ConstructedApp(randomTrendIndex) EXCEPT !.present = present]
    /\ blob = setTrendDirection(animate(Constructed(seed, signs)),
                                ConstructedApp(randomTrendIndex).currentTrendAngle)
    /\ timers = 0
    /\ frames = 0
    /\ events = 0
    /\ last = Hist("constructor", FrameLocals(Constructed(seed, signs)),
                   Undefined, FALSE)

NextView ==
  \/ BlobClick
  \/ FirstDotClick
  \/ ToggleGraphView
  \/ ResetToHomeView
  \/ SquishDone
  \/ ViewFrame
  \/ ViewTimeout

SpecView == InitView /\ [][NextView]_vars

\* a callback is pending and one runs
CallbackScheduled == timers > 0 /\ frames' = frames + 1

\* the pending callbacks fire
FairView == SpecView /\ WF_frames(CallbackScheduled)


\* the step is a call of toggleGraphView()
ToggleCall ==
  /\ events' = events + 1
  /\ "called" \in DOMAIN last'.loc
  /\ last'.loc.called = "toggleGraphView"

\* C31: a call of toggleGraphView while isAnimating is true changes nothing
\* (the variables, the classes and styles of the graph and the blob, and the
\* pending callbacks stay as they are), and a call accepted while isAnimating
\* is false negates isGraphVisible and sets isAnimating.
C31_GuardedToggle ==
  [][ToggleCall =>
       IF app.isAnimating
       THEN app' = app /\ look' = look /\ slider' = slider /\ blob' = blob
       ELSE "graph" \in app.present =>
              /\ app'.isGraphVisible = ~app.isGraphVisible
              /\ app'.isAnimating]_vars

\* a call has just been refused during the animation an earlier call began
C31_Witness ==
  /\ "called" \in DOMAIN last.loc
  /\ last.loc.called = "toggleGraphView"
  /\ ~last.loc.accepted
  /\ events >= 2
  /\ app.isAnimating
  /\ app.pending.timeouts # <<>>


\* C32: when the pending timeouts and animation callbacks fire, after every
\* accepted toggleGraphView isAnimating becomes false again, whichever way
\* the view changes and whichever parts the page has.
C32_ToggleCompletes == app.isAnimating ~> ~app.isAnimating

\* the same on the pages that have the blob element
C32_CompletesWithBlob ==
  (app.isAnimating /\ "blobContainer" \in app.present) ~> ~app.isAnimating


\* C33: from the return of resetToHomeView until the next accepted
\* toggleGraphView, whichever callbacks of earlier toggles run in between,
\* isGraphVisible is false, the graph is hidden and the blob is displayed.
C33_HomeAfterReset ==
  Home =>
    /\ ~app.isGraphVisible
    /\ "graph" \in app.present => app.graph.hidden
    /\ "blobContainer" \in app.present =>
         app.blobContainer.display # "none"


\* ------------------------------------------------------------ trend button
\* the values (Math.random() - 0.5) * 25 takes in generateRandomPath
Noises == {-1250, 0, 1249}

\* slopeMap of generateRandomPath, in tenths
slopeMap(trendAngle) ==
  IF trendAngle = 0 THEN -12
  ELSE IF trendAngle = 45 THEN -5
  ELSE IF trendAngle = 135 THEN 5
  ELSE IF trendAngle = 180 THEN 12
  ELSE 0

\* generateRandomPath(endY, trendAngle): of the middle points of a shape the
\* last is the one with progress >= 0.7, which is drawn around
\* endY + slopeBias
Biased(shape, endY, trendAngle, noise) ==
  LET endX == 206 * Px
      numPoints == Len(shape.mids) + 1
      x == Div((numPoints - 1) * endX, numPoints)
      remainingX == endX - x
      slopeBias == Div(slopeMap(trendAngle) * remainingX, 20)
  IN [shape EXCEPT !.mids[numPoints - 1] = endY + slopeBias + noise]

\* TREND_ANGLES.indexOf(angle), counted from 0
indexOf(angle) == CHOOSE i \in 0..4 : TREND_ANGLES[i + 1] = angle

\* the click listener of the trend arrow button up to its
\* generateGraphForTrend
trendArrowClick(a) ==
  LET currentTrendIndex == (a.currentTrendIndex + 1) % 5
  IN App_setTrendDirection([a EXCEPT !.currentTrendIndex = currentTrendIndex],
                           currentTrendIndex)

\* generateGraphForTrend(trendAngle): the debug slider holds the value last
\* given to setGlucoseValue
generateGraphForTrend(s, glucoseValue, trendAngle, shape, noise) ==
  LET targetY == glucoseToY(glucoseValue)
  IN [updateGraphPath(s, generateRandomPath(
                           targetY, Biased(shape, targetY, trendAngle, noise)))
       EXCEPT !.value = glucoseValue, !.targetY = targetY]

\* a click on the trend arrow button: the listener sets the trend, then the
\* render that ends updateGraphPath hands the slope angle at the cursor to
\* updateTrendFromAngle
TrendArrowClick ==
  /\ \E shape \in CurveShapes, noise \in Noises :
       slider' = generateGraphForTrend(
                   slider, look.glucoseValue,
                   trendArrowClick(app).currentTrendAngle, shape, noise)
  /\ app' = updateTrendFromAngle(
              trendArrowClick(app),
              getSlopeAngleAtX(slider'.pathSamples, slider'.currentX))
  /\ blob' = setTrendDirection(blob, app'.currentTrendAngle)
  /\ last' = Hist("click", NoLocals, last.edgeR2, last.fresh)
  /\ UNCHANGED <<timers, frames, events, look>>

\* the page after initDebugSlider and the construction of the graph slider:
\* currentTrendIndex is the index of the angle randomizeInitialValues drew
InitTrend ==
  \E seed \in TimeSeeds, signs \in NoiseTables, randomTrendIndex \in 0..4 :
    /\ look = ConstructedLook(Constructed(seed, signs), InitialPathNoise)
    /\ slider = ConstructedSlider
    /\ app = [ConstructedApp(randomTrendIndex)
               EXCEPT !.currentTrendIndex =
                        indexOf(randomizeInitialValues(
                                  LoadedApp, randomTrendIndex).currentTrendAngle)]
    /\ blob = setTrendDirection(animate(Constructed(seed, signs)),
                                ConstructedApp(randomTrendIndex).currentTrendAngle)
    /\ timers = 0
    /\ frames = 0
    /\ events = 0
    /\ last = Hist("constructor", FrameLocals(Constructed(seed, signs)),
                   Undefined, FALSE)

NextTrend ==
  \/ TrendArrowClick
  \/ RenderDotAtX

SpecTrend == InitTrend /\ [][NextTrend]_vars

\* the angle after angle in the cycle 0, 45, 90, 135, 180, 0
NextAngle(angle) == TREND_ANGLES[((indexOf(angle) + 1) % 5) + 1]

\* the step is a click on the trend arrow button
TrendClick == app'.currentTrendIndex # app.currentTrendIndex

\* C34: a click on the trend arrow button leaves the trend at the angle that
\* follows, in the cycle 0, 45, 90, 135, 180, 0, the angle in force just
\* before the click, whatever clicks and cursor updates came before.
C34_ClickAdvancesTrend ==
  [][TrendClick => app'.currentTrendAngle = NextAngle(app.currentTrendAngle)]_vars

\* the listener's own assignment follows the angle in force before the click
C34_ListenerAdvancesTrend ==
  [][TrendClick =>
       trendArrowClick(app).currentTrendAngle
         = NextAngle(app.currentTrendAngle)]_vars

\* the trend a click leaves is the slope angle of the new curve at the cursor
C34_ClickShowsSlope ==
  [][TrendClick =>
       app'.currentTrendAngle
         = getSlopeAngleAtX(slider'.pathSamples, slider'.currentX)]_vars


\* color and scale are those of the stored glucose value
LookMatchesGlucose ==
  /\ look.currentColor = look.targetColor
  /\ look.targetColor = getColorForGlucose(look.glucoseValue)
  /\ look.currentScale = getScaleForGlucose(look.glucoseValue)

\* C35: in every reachable state currentColor = targetColor =
\* getColorForGlucose(glucoseValue) and currentScale =
\* getScaleForGlucose(glucoseValue), and a setGlucose step changes nothing but
\* glucoseValue, the two colors and the scale: the outline, the position and
\* the drag, lock and edge-return state stay as they are.
C35_LookFollowsGlucose ==
  /\ LookMatchesGlucose
  /\ [][/\ LookMatchesGlucose'
        /\ last'.op = "setGlucose" =>
             /\ blob' = blob
             /\ look'.path = look.path]_vars

\* setGlucose has just replaced a value of another color and scale
C35_Witness ==
  /\ last.op = "setGlucose"
  /\ look.glucoseValue # initialGlucose
  /\ look.currentColor # getColorForGlucose(initialGlucose)
  /\ look.currentScale # getScaleForGlucose(initialGlucose)
  /\ look.currentColor = getColorForGlucose(look.glucoseValue)


\* centerLock and centerLockEaseOut are not both true
LockExclusive == ~(blob.centerLock /\ blob.centerLockEaseOut)

\* C36: centerLock and centerLockEaseOut are never both true;
\* centerLockEaseOut turns true only in an unlockFromCenter step, and turns
\* false only in a lockToCenter step or in a frame whose time is at least
\* centerLockEaseDuration past centerLockEaseStart.
C36_LockStates ==
  /\ LockExclusive
  /\ [][/\ LockExclusive'
        /\ (~blob.centerLockEaseOut /\ blob'.centerLockEaseOut)
             => last'.op = "unlockFromCenter"
        /\ (blob.centerLockEaseOut /\ ~blob'.centerLockEaseOut)
             => \/ last'.op = "lockToCenter"
                \/ /\ FrameStep
                   /\ blob'.time - blob.centerLockEaseStart
                        >= centerLockEaseDuration]_vars

\* a frame has just ended the ease-out that an unlockFromCenter began
C36_Witness ==
  /\ last.op = "animate"
  /\ last.loc.ran
  /\ last.loc.lockEasing
  /\ ~blob.centerLockEaseOut
  /\ ~blob.centerLock
  /\ blob.time - blob.centerLockEaseStart >= centerLockEaseDuration


\* the stored start times are not after the clock
StartsInPast ==
  /\ blob.edgeReturnStart <= blob.time
  /\ blob.centerLockEaseStart <= blob.time
  /\ blob.oscillationPhaseOffset <= blob.time

\* the elapsed times of the frame that led to this state were not negative
\* and its interpolation factors were within 0..1
FrameFactors(loc) ==
  /\ loc.edgeT \in 0..One
  /\ loc.edgeEaseT \in 0..One
  /\ loc.lockT \in 0..One
  /\ loc.lockEaseT \in 0..One

\* C37: a frame adds 16 to time and no other step changes time; in every
\* reachable state edgeReturnStart, centerLockEaseStart and
\* oscillationPhaseOffset are at most time, so the elapsed times of a frame
\* are not negative and its interpolation factors lie within 0..1.
C37_ClockForward ==
  /\ StartsInPast
  /\ [][/\ StartsInPast'
        /\ blob'.time = IF FrameStep THEN blob.time + frameStep ELSE blob.time
        /\ FrameStep =>
             /\ blob'.time - blob.edgeReturnStart >= 0
             /\ blob'.time - blob.centerLockEaseStart >= 0
             /\ blob'.time - blob.oscillationPhaseOffset >= 0
             /\ FrameFactors(last'.loc)]_vars

\* a frame in the middle of an ease-out whose start an unlockFromCenter
\* stamped after the first frames
C37_Witness ==
  /\ last.op = "animate"
  /\ last.loc.ran
  /\ last.loc.lockEasing
  /\ last.loc.lockT \in 1..(One - 1)
  /\ blob.centerLockEaseStart > frameStep
  /\ blob.time > blob.centerLockEaseStart
====
